---- MODULE Spec2Model ----
(***************************************************************************)
(* Spaced-repetition flashcards (mdanshin/flashcards): the scheduler       *)
(* (buildQueues, gradeCard), the session controller (pickNextCard,         *)
(* revealAnswer, search jump) and the local-cache side of the progress     *)
(* store (loadProgress, persistProgress, saveProgress, resetProgress), and  *)
(* the remote side of the store for the client that talks to the sync      *)
(* server (src/unnamed/part_000) with the server's handlers.               *)
(*                                                                         *)
(* Conventions of the model                                                *)
(*  - Time is counted in units of 100 ms since an epoch that is a UTC      *)
(*    midnight: 86400000 ms = 864000 units, 400 ms = 4 units.              *)
(*  - ease is counted in hundredths: 2.5 = 250, 1.3 = 130, 0.2 = 20.       *)
(*    Math.round(x) of a positive x is floor(x + 1/2), computed on the     *)
(*    scaled integers; binary floating-point error is not modelled.        *)
(*  - A card is identified by its word (the catalog's join key).           *)
(*  - progress.cards is a function whose DOMAIN is the set of words that   *)
(*    have a record (a JS object used as a map).                           *)
(*  - entry.seen = FALSE stands for the property being absent.             *)
(*  - lastReview = 0 stands for null.                                      *)
(***************************************************************************)
EXTENDS Integers, Sequences, FiniteSets, TLC

VARIABLES
    clock,              \* Date.now(), in units of 100 ms
    catalog,            \* the data file data/cards.json served to the client
    bootPc,             \* bootstrap(): "fetching" while awaiting fetch(DATA_URL), then "ready"
    cards,              \* let cards = []
    progress,           \* let progress = createEmptyProgress()
    settings,           \* let settings = {...DEFAULT_SETTINGS}  (dailyNewLimit, lapseMinutes)
    level,              \* state.level (= settings.preferredLevel, persisted with the settings)
    mode,               \* state.mode
    reviewQueue,        \* state.reviewQueue
    newQueue,           \* state.newQueue
    currentCard,        \* state.currentCard (NoCard = null)
    currentKind,        \* state.currentKind ("none" = null)
    showingAnswer,      \* state.showingAnswer
    history,            \* state.history
    saveDebounceTimer,  \* let saveDebounceTimer = null: the handle (deadline) of the last
                        \* setTimeout of saveProgress(), or NoTimer
    timers,             \* the timeouts scheduled in the browser and not yet fired or cleared
    currentUser,        \* let currentUser = null
    localStorage,       \* window.localStorage, progress keys only
    currentIdToken,     \* let currentIdToken = null: the identity the Google ID token is for
    authMessage,        \* the notice last passed to showAuthMessage()
    remote,             \* the server's store.users: identity -> {progress, history}
    loads,              \* loadProgress() calls suspended at await fetch(PROGRESS_ENDPOINT)
    writes,             \* persistProgress() calls suspended at await fetch(..., POST)
    deletes,            \* resetProgress() calls suspended at await fetch(..., DELETE)
    lastOp,             \* history variable: the last handler that ran, with its inputs
    lastSaved           \* history variable: per storage key, the in-memory snapshot last written

vars == <<clock, catalog, bootPc, cards, progress, settings, level, mode, reviewQueue,
          newQueue, currentCard, currentKind, showingAnswer, history, saveDebounceTimer,
          timers, currentUser, localStorage, currentIdToken, authMessage, remote, loads,
          writes, deletes, lastOp, lastSaved>>

queueVars == <<reviewQueue, newQueue, currentCard, currentKind, showingAnswer>>

\* the requests in flight and the server's store
netVars == <<remote, loads, writes, deletes>>

-----------------------------------------------------------------------------
(* Bounds of the model *)

MaxTicks == 2           \* clock steps per run
MaxReviews == 2         \* gradings recorded in the snapshot (sum of entry.totalReviews)
                        \* and in the session history
MaxLimit == 1           \* dailyNewLimit values 1..MaxLimit besides the default
MaxInFlight == 2        \* requests awaiting their response at the same time
MaxLoads == 1           \* of them, loads
MaxOverlap == 2         \* loads in flight at once in the runs with two identities
MaxRequests == 3        \* requests the sync server receives in a run
MaxGrades == 5          \* gradings of one card in the runs that grow a record
MaxInterval == 200      \* largest interval, in days, that these runs grade further

-----------------------------------------------------------------------------
(* Program constants *)

DEFAULT_dailyNewLimit == 20
DEFAULT_lapseMinutes == 10
DefaultEase == 250
MinEase == 130
AgainPenalty == 20
HardPenalty == 15
EasyBonus == 15
HISTORY_SESSION == 12

DayUnits == 86400000 \div 100
MinuteUnits == (60 * 1000) \div 100
DebounceUnits == 400 \div 100

STORAGE_KEY == "oxford3000-progress-v1"
NoUser == "null"
NoCard == "null"
NoTimer == 0 - 1
NoToken == "null"
MAX_HISTORY_LENGTH == 100
ALLOWED_HISTORY_MODES == {"en-ru", "ru-en"}

\* the level filters exercised, among the values of LEVEL_LABELS
LevelChoices == {"all", "A2"}

Max(a, b) == IF a >= b THEN a ELSE b
Min(a, b) == IF a <= b THEN a ELSE b

-----------------------------------------------------------------------------
(* Environment: the clock and the catalog *)

\* The run starts 200 ms before a UTC midnight. The clock then moves by 400 ms (past
\* midnight), by 10 minutes, by 24 hours, and so on in turn.
ClockStart == DayUnits - 2

LapseTick == DEFAULT_lapseMinutes * MinuteUnits

TickCycle == DebounceUnits + LapseTick + DayUnits

\* the number of clock steps taken when the clock shows now
TickCount(now) ==
    LET off == now - ClockStart
        rem == off % TickCycle
    IN  3 * (off \div TickCycle)
          + (IF rem = 0 THEN 0 ELSE IF rem = DebounceUnits THEN 1 ELSE 2)

\* the next clock step
TickStep(now) ==
    LET k == TickCount(now) % 3
    IN  IF k = 0 THEN DebounceUnits ELSE IF k = 1 THEN LapseTick ELSE DayUnits

Catalog1 == << [word |-> "hello", level |-> "A1"] >>

Catalog2 == << [word |-> "hello", level |-> "A1"],
               [word |-> "world", level |-> "a2"] >>

Catalogs == {Catalog1, Catalog2}

LimitChoices == (1..MaxLimit) \cup {DEFAULT_dailyNewLimit}
LapseChoices == {DEFAULT_lapseMinutes, 1, 0}

\* new Date().toISOString().slice(0, 10): the UTC calendar day of the clock
getTodayKey(now) == now \div DayUnits

-----------------------------------------------------------------------------
(* Review Record Store *)

EmptyCards == [w \in {} |-> TRUE]

createEmptyProgress(now) ==
    [cards |-> EmptyCards,
     meta |-> [lastReviewDay |-> getTodayKey(now), reviewsToday |-> 0, newToday |-> 0]]

\* mutant: the counters are reset but lastReviewDay is not advanced
RollMeta_KeepsDay(meta, today) ==
    IF meta.lastReviewDay # today
    THEN [lastReviewDay |-> meta.lastReviewDay, reviewsToday |-> 0, newToday |-> 0]
    ELSE meta

\* the day-rollover block of ensureProgressForToday and of gradeCard
RollMeta(meta, today) ==
    IF meta.lastReviewDay # today
    THEN [lastReviewDay |-> today, reviewsToday |-> 0, newToday |-> 0]
    ELSE meta

\* ensureProgressForToday(): meta and cards are always present in the model
ensureProgressForToday(p, now) ==
    [cards |-> p.cards, meta |-> RollMeta(p.meta, getTodayKey(now))]

isSignedIn(user) == user # NoUser

getProgressStorageKey(user) ==
    IF isSignedIn(user) THEN <<STORAGE_KEY, user>> ELSE <<STORAGE_KEY>>

\* JSON.stringify of one record: a property whose value is undefined is dropped
StringifyEntry(e) ==
    IF e.seen
    THEN e
    ELSE [ease |-> e.ease, interval |-> e.interval, repetitions |-> e.repetitions,
          due |-> e.due, lastReview |-> e.lastReview, totalReviews |-> e.totalReviews,
          lapses |-> e.lapses]

\* JSON.parse of one record: a missing property reads as undefined
ParseEntry(j) ==
    [ease |-> j.ease, interval |-> j.interval, repetitions |-> j.repetitions,
     due |-> j.due, lastReview |-> j.lastReview, totalReviews |-> j.totalReviews,
     lapses |-> j.lapses,
     seen |-> IF "seen" \in DOMAIN j THEN j.seen ELSE FALSE]

JSONstringify(p) ==
    [cards |-> [w \in DOMAIN p.cards |-> StringifyEntry(p.cards[w])], meta |-> p.meta]

JSONparse(raw) ==
    [cards |-> [w \in DOMAIN raw.cards |-> ParseEntry(raw.cards[w])], meta |-> raw.meta]

\* loadProgressFromLocalStorage(): null (here: absent) when there is no item
HasStoredProgress(store, user) == getProgressStorageKey(user) \in DOMAIN store

loadProgressFromLocalStorage(store, user) == JSONparse(store[getProgressStorageKey(user)])

StorePut(store, key, value) ==
    [k \in DOMAIN store \cup {key} |-> IF k = key THEN value ELSE store[k]]

StoreRemove(store, key) == [k \in DOMAIN store \ {key} |-> store[k]]

\* saveProgressToLocalStorage()
saveProgressToLocalStorage(store, user, p) ==
    StorePut(store, getProgressStorageKey(user), JSONstringify(p))

\* mutant: the load resets the daily counters whatever the stored day
LoadLocal_AlwaysResets(store, user, now) ==
    LET p == IF HasStoredProgress(store, user)
             THEN loadProgressFromLocalStorage(store, user)
             ELSE createEmptyProgress(now)
    IN  [cards |-> p.cards, meta |-> createEmptyProgress(now).meta]

\* loadProgress(), branch without identity: the stored snapshot or an empty one,
\* then ensureProgressForToday()
LoadLocal(store, user, now) ==
    ensureProgressForToday(
        IF HasStoredProgress(store, user)
        THEN loadProgressFromLocalStorage(store, user)
        ELSE createEmptyProgress(now),
        now)

-----------------------------------------------------------------------------
(* Scheduler: queue partitioning *)

toUpperCase(s) ==
    CASE s = "a1" -> "A1"
      [] s = "a2" -> "A2"
      [] s = "b1" -> "B1"
      [] s = "b2" -> "B2"
      [] s = "all" -> "ALL"
      [] OTHER -> s

matchesLevel(card, lvl) ==
    \/ lvl = "all"
    \/ toUpperCase(card.level) = toUpperCase(lvl)

HasEntry(p, w) == w \in DOMAIN p.cards

\* progress.cards[word]?.due ?? 0
DueOf(p, w) == IF HasEntry(p, w) THEN p.cards[w].due ELSE 0

\* entry.due && entry.due <= now
IsReviewCard(p, w, now) == HasEntry(p, w) /\ p.cards[w].due # 0 /\ p.cards[w].due <= now

\* mutant: only words without a record count as new
IsFreshCard_OnlyMissing(p, w) == ~HasEntry(p, w)

\* !entry, or an entry whose due is falsy
IsFreshCard(p, w) == ~HasEntry(p, w) \/ p.cards[w].due = 0

RECURSIVE InsertByDue_TiesFirst(_, _, _)
\* mutant: a card is inserted before the cards of equal due
InsertByDue_TiesFirst(sorted, w, p) ==
    IF sorted = <<>> THEN <<w>>
    ELSE IF DueOf(p, Head(sorted)) - DueOf(p, w) < 0
         THEN <<Head(sorted)>> \o InsertByDue_TiesFirst(Tail(sorted), w, p)
         ELSE <<w>> \o sorted

RECURSIVE InsertByDue(_, _, _)
\* insertion after every element whose due is not greater: a stable sort step
InsertByDue(sorted, w, p) ==
    IF sorted = <<>> THEN <<w>>
    ELSE IF DueOf(p, Head(sorted)) - DueOf(p, w) <= 0
         THEN <<Head(sorted)>> \o InsertByDue(Tail(sorted), w, p)
         ELSE <<w>> \o sorted

RECURSIVE SortByDue(_, _)
\* review.sort((a, b) => dueA - dueB), Array.prototype.sort being stable
SortByDue(ws, p) ==
    IF ws = <<>> THEN <<>>
    ELSE InsertByDue(SortByDue(SubSeq(ws, 1, Len(ws) - 1), p), ws[Len(ws)], p)

WordsOf(cs) == [i \in 1..Len(cs) |-> cs[i].word]

Take(s, n) == SubSeq(s, 1, Min(Len(s), n))

\* cards.filter((card) => matchesLevel(card, state.level)), as words
FilteredWords(cat, lvl) == WordsOf(SelectSeq(cat, LAMBDA c : matchesLevel(c, lvl)))

\* the review bucket of buildQueues(), sorted by due
ReviewBucket(cat, p, lvl, now) ==
    SortByDue(SelectSeq(FilteredWords(cat, lvl), LAMBDA w : IsReviewCard(p, w, now)), p)

\* the new bucket of buildQueues(), cut to the remaining daily quota
NewBucket(cat, p, lvl, limit) ==
    LET fresh == SelectSeq(FilteredWords(cat, lvl), LAMBDA w : IsFreshCard(p, w))
        remainingNew == Max(0, limit - p.meta.newToday)
    IN  Take(fresh, remainingNew)

\* mutant: the buckets are pushed onto the queues of the state instead of replacing them
BuildQueues_Append(cat, p, lvl, limit, now) ==
    [reviewQueue |-> reviewQueue \o ReviewBucket(cat, p, lvl, now),
     newQueue |-> newQueue \o NewBucket(cat, p, lvl, limit)]

\* buildQueues(): state.reviewQueue = review; state.newQueue = newQueue
BuildQueues(cat, p, lvl, limit, now) ==
    [reviewQueue |-> ReviewBucket(cat, p, lvl, now),
     newQueue |-> NewBucket(cat, p, lvl, limit)]

\* mutant: the new queue is served first
pickNextCard_NewFirst(q) ==
    IF q.newQueue # <<>>
    THEN [reviewQueue |-> q.reviewQueue, newQueue |-> Tail(q.newQueue),
          currentCard |-> Head(q.newQueue), currentKind |-> "new"]
    ELSE IF q.reviewQueue # <<>>
    THEN [reviewQueue |-> Tail(q.reviewQueue), newQueue |-> q.newQueue,
          currentCard |-> Head(q.reviewQueue), currentKind |-> "review"]
    ELSE [reviewQueue |-> q.reviewQueue, newQueue |-> q.newQueue,
          currentCard |-> NoCard, currentKind |-> "none"]

\* pickNextCard() on freshly built queues q
pickNextCard(q) ==
    IF q.reviewQueue # <<>>
    THEN [reviewQueue |-> Tail(q.reviewQueue), newQueue |-> q.newQueue,
          currentCard |-> Head(q.reviewQueue), currentKind |-> "review"]
    ELSE IF q.newQueue # <<>>
    THEN [reviewQueue |-> q.reviewQueue, newQueue |-> Tail(q.newQueue),
          currentCard |-> Head(q.newQueue), currentKind |-> "new"]
    ELSE [reviewQueue |-> q.reviewQueue, newQueue |-> q.newQueue,
          currentCard |-> NoCard, currentKind |-> "none"]

\* buildQueues(); showNextCard(): the tail of every handler that rebuilds
Rebuild(cat, p, lvl, limit, now) ==
    LET r == pickNextCard(BuildQueues(cat, p, lvl, limit, now))
    IN  /\ reviewQueue' = r.reviewQueue
        /\ newQueue' = r.newQueue
        /\ currentCard' = r.currentCard
        /\ currentKind' = r.currentKind
        /\ showingAnswer' = FALSE

-----------------------------------------------------------------------------
(* Scheduler: grade update *)

\* the entry gradeCard starts from when the word has no record
DefaultEntry(now) ==
    [ease |-> DefaultEase, interval |-> 0, repetitions |-> 0, due |-> now,
     lastReview |-> 0, totalReviews |-> 0, lapses |-> 0, seen |-> FALSE]

\* entry.ease || 2.5
EaseOrDefault(ease) == IF ease = 0 THEN DefaultEase ELSE ease

\* mutant: the floor of 1.3 is missing
LowerEase_NoFloor(ease, penalty) == ease - penalty

\* Math.max(1.3, ease - penalty)
LowerEase(ease, penalty) == Max(MinEase, ease - penalty)

\* Math.round(interval * 1.2)
RoundTimes12(interval) == (interval * 12 + 5) \div 10

\* Math.round(interval * 2.5)
RoundTimes25(interval) == (interval * 25 + 5) \div 10

\* Math.round(interval * ease), ease in hundredths
RoundTimesEase(interval, ease) == (interval * ease + 50) \div 100

\* Math.round(interval * ease * 1.3), ease in hundredths
RoundTimesEase13(interval, ease) == (interval * ease * 13 + 500) \div 1000

\* mutant: a lapsed card is due at once
AgainEntry_DueNow(e, now, lapseMinutes) ==
    [e EXCEPT !.repetitions = 0,
              !.interval = 0,
              !.ease = LowerEase(EaseOrDefault(e.ease), AgainPenalty),
              !.due = now,
              !.lapses = e.lapses + 1]

\* mutant: a lapse keeps the interval
AgainEntry_KeepsInterval(e, now, lapseMinutes) ==
    [e EXCEPT !.repetitions = 0,
              !.ease = LowerEase(EaseOrDefault(e.ease), AgainPenalty),
              !.due = now + lapseMinutes * MinuteUnits,
              !.lapses = e.lapses + 1]

\* grade === 0
AgainEntry(e, now, lapseMinutes) ==
    [e EXCEPT !.repetitions = 0,
              !.interval = 0,
              !.ease = LowerEase(EaseOrDefault(e.ease), AgainPenalty),
              !.due = now + lapseMinutes * MinuteUnits,
              !.lapses = e.lapses + 1]

\* mutant: Hard keeps a nonzero interval
HardInterval_Keeps(e) == IF e.interval # 0 THEN e.interval ELSE 1

\* mutant: Hard leaves an interval of 0 at 0
HardInterval_NoFirstDay(e) == IF e.interval # 0 THEN Max(1, RoundTimes12(e.interval)) ELSE 0

\* grade === 1
HardInterval(e) == IF e.interval # 0 THEN Max(1, RoundTimes12(e.interval)) ELSE 1

\* mutant: from the third step on, Good does not multiply by the ease
GoodInterval_NoEase(e) ==
    IF e.repetitions = 0 THEN 1
    ELSE IF e.repetitions = 1 THEN 6
    ELSE Max(1, e.interval)

\* mutant: the second step of 6 days is missing
GoodInterval_NoSecondStep(e) ==
    IF e.repetitions = 0 THEN 1
    ELSE Max(1, RoundTimesEase(e.interval, e.ease))

\* grade === 2
GoodInterval(e) ==
    IF e.repetitions = 0 THEN 1
    ELSE IF e.repetitions = 1 THEN 6
    ELSE Max(1, RoundTimesEase(e.interval, e.ease))

\* mutant: the first step of 4 days is missing
EasyInterval_NoFirstStep(e) ==
    IF e.repetitions <= 1 THEN RoundTimes25(e.interval)
    ELSE Max(1, RoundTimesEase13(e.interval, e.ease))

\* grade === 3, e.ease being the ease already raised
EasyInterval(e) ==
    IF e.repetitions = 0 THEN 4
    ELSE IF e.repetitions = 1 THEN RoundTimes25(e.interval)
    ELSE Max(1, RoundTimesEase13(e.interval, e.ease))

\* mutant: an interval of 0 is not replaced by one day
DueAfter_NoFloor(interval, now) == now + interval * DayUnits

\* entry.due = now + (entry.interval || 1) * 86400000
DueAfter(interval, now) == now + (IF interval = 0 THEN 1 ELSE interval) * DayUnits

\* the branch on the grade, then entry.lastReview = now
GradeEntry(e, grade, now, lapseMinutes) ==
    LET graded ==
          IF grade = 0 THEN AgainEntry(e, now, lapseMinutes)
          ELSE
            LET e1 == [e EXCEPT !.ease = EaseOrDefault(e.ease)]
                e2 == CASE grade = 1 ->
                             [e1 EXCEPT !.ease = LowerEase(e1.ease, HardPenalty),
                                        !.interval = HardInterval(e1)]
                        [] grade = 2 ->
                             [e1 EXCEPT !.interval = GoodInterval(e1),
                                        !.repetitions = e1.repetitions + 1]
                        [] grade = 3 ->
                             LET e3 == [e1 EXCEPT !.ease = e1.ease + EasyBonus]
                             IN  [e3 EXCEPT !.interval = EasyInterval(e3),
                                            !.repetitions = e3.repetitions + 1]
                        [] OTHER -> e1
            IN  [e2 EXCEPT !.due = DueAfter(e2.interval, now)]
    IN  [graded EXCEPT !.lastReview = now]

\* the entry gradeCard reads: progress.cards[word] || {defaults}
EntryOf(p, w, now) == IF HasEntry(p, w) THEN p.cards[w] ELSE DefaultEntry(now)

\* mutant: the seen flag is not looked at
CountsAsNew_IgnoresSeen(kind, e) == kind = "new"

\* state.currentKind === 'new' && !entry.seen
CountsAsNew(kind, e) == kind = "new" /\ ~e.seen

\* the daily counters after one grading
GradeMeta(meta, today, countsAsNew, limit) ==
    LET m1 == RollMeta(meta, today)
        m2 == IF countsAsNew
              THEN [m1 EXCEPT !.newToday = Min(limit, m1.newToday + 1)]
              ELSE m1
    IN  [m2 EXCEPT !.reviewsToday = m2.reviewsToday + 1]

\* the snapshot after gradeCard(grade) on word w
GradeProgress(p, w, kind, grade, now, limit, lapseMinutes) ==
    LET e0 == EntryOf(p, w, now)
        isNew == CountsAsNew(kind, e0)
        e1 == IF isNew THEN [e0 EXCEPT !.seen = TRUE] ELSE e0
        e2 == [e1 EXCEPT !.totalReviews = e1.totalReviews + 1]
        e3 == GradeEntry(e2, grade, now, lapseMinutes)
    IN  [cards |-> [x \in DOMAIN p.cards \cup {w} |-> IF x = w THEN e3 ELSE p.cards[x]],
         meta |-> GradeMeta(p.meta, getTodayKey(now), isNew, limit)]

PushHistory_NoBound(h, entry) == <<entry>> \o h

\* state.history.unshift(entry); state.history = state.history.slice(0, 12)
PushHistory(h, entry) == Take(<<entry>> \o h, HISTORY_SESSION)

-----------------------------------------------------------------------------
(* Sync Reconciler: saving *)

clearTimeout(ts, handle) == ts \ {handle}
setTimeout(ts, deadline) == ts \cup {deadline}

\* mutant: the pending timeout is not cleared
DebounceTimers_NoClear(ts, handle, now) == setTimeout(ts, now + DebounceUnits)

\* saveProgress(): if (saveDebounceTimer) clearTimeout(...); setTimeout(..., 400)
DebounceTimers(ts, handle, now) ==
    setTimeout(IF handle # NoTimer THEN clearTimeout(ts, handle) ELSE ts,
               now + DebounceUnits)

\* mutant: the immediate save leaves the pending timeout alone
ImmediateTimers_NoClear(ts, handle) == ts

\* saveProgress({immediate: true}): if (saveDebounceTimer) clearTimeout(...)
ImmediateTimers(ts, handle) == IF handle # NoTimer THEN clearTimeout(ts, handle) ELSE ts

InFlight == Len(loads) + Len(writes) + Len(deletes)

RemoveAt(q, i) == SubSeq(q, 1, i - 1) \o SubSeq(q, i + 1, Len(q))

\* mutant: the local write is skipped
LocalWrite_Skipped(store, saved, user, p, now) ==
    [localStorage |-> store, lastSaved |-> saved]

\* the local write of persistProgress(), with the history variable lastSaved
LocalWrite(store, saved, user, p, now) ==
    [localStorage |-> saveProgressToLocalStorage(store, user, p),
     lastSaved |-> StorePut(saved, getProgressStorageKey(user),
                            [progress |-> p, day |-> getTodayKey(now)])]

\* mutant: every save goes to the server, identity or not
persistProgress_AlwaysRemote(store, saved, msg, ws, user, token, p, h, now) ==
    [localStorage |-> store, lastSaved |-> saved, authMessage |-> msg,
     writes |-> Append(ws, [sub |-> token,
                            body |-> [progress |-> JSONstringify(p), history |-> h]])]

\* mutant: the credential is not looked at before the POST
persistProgress_NoTokenCheck(store, saved, msg, ws, user, token, p, h, now) ==
    LET local == LocalWrite(store, saved, user, p, now)
    IN  IF ~isSignedIn(user)
        THEN [localStorage |-> local.localStorage, lastSaved |-> local.lastSaved,
              authMessage |-> msg, writes |-> ws]
        ELSE [localStorage |-> store, lastSaved |-> saved, authMessage |-> msg,
              writes |-> Append(ws, [sub |-> token,
                                     body |-> [progress |-> JSONstringify(p),
                                               history |-> h]])]

\* persistProgress() up to its await: without identity the local write; with identity
\* and without token the local write and a notice; otherwise the POST is sent
persistProgress(store, saved, msg, ws, user, token, p, h, now) ==
    LET local == LocalWrite(store, saved, user, p, now)
    IN  IF ~isSignedIn(user)
        THEN [localStorage |-> local.localStorage, lastSaved |-> local.lastSaved,
              authMessage |-> msg, writes |-> ws]
        ELSE IF token = NoToken
        THEN [localStorage |-> local.localStorage, lastSaved |-> local.lastSaved,
              authMessage |-> "signIn", writes |-> ws]
        ELSE [localStorage |-> store, lastSaved |-> saved, authMessage |-> msg,
              writes |-> Append(ws, [sub |-> token,
                                     body |-> [progress |-> JSONstringify(p),
                                               history |-> h]])]

\* persistProgress() would send a request
SendsWrite == isSignedIn(currentUser) /\ currentIdToken # NoToken

-----------------------------------------------------------------------------
(* Handlers *)

\* the handlers that end with buildQueues(); showNextCard() (gradeCard: pickNextCard())
RebuildOps == {"fetch", "grade", "level", "settings", "reset"}

\* time passes
Tick ==
    /\ TickCount(clock) < MaxTicks
    /\ clock' = clock + TickStep(clock)
    /\ lastOp' = [name |-> "tick"]
    /\ UNCHANGED <<catalog, bootPc, cards, progress, settings, level, mode, reviewQueue,
                   newQueue, currentCard, currentKind, showingAnswer, history,
                   saveDebounceTimer, currentUser, localStorage, lastSaved>>
    /\ UNCHANGED <<timers, currentIdToken, authMessage>>
    /\ UNCHANGED netVars

\* bootstrap(), after fetch(DATA_URL): cards = await response.json(); buildQueues(); showNextCard()
FetchCards ==
    /\ bootPc = "fetching"
    /\ bootPc' = "ready"
    /\ cards' = catalog
    /\ Rebuild(catalog, progress, level, settings.dailyNewLimit, clock)
    /\ lastOp' = [name |-> "fetch"]
    /\ UNCHANGED <<clock, catalog, progress, settings, level, mode, history,
                   saveDebounceTimer, currentUser, localStorage, lastSaved>>
    /\ UNCHANGED <<timers, currentIdToken, authMessage>>
    /\ UNCHANGED netVars

\* revealAnswer(), from the show-answer button or the keyboard
revealAnswer ==
    /\ currentCard # NoCard
    /\ ~showingAnswer
    /\ showingAnswer' = TRUE
    /\ lastOp' = [name |-> "reveal",
                  displaced |-> IF lastOp.name = "search" THEN lastOp.displaced
                                ELSE NoCard]
    /\ UNCHANGED <<clock, catalog, bootPc, cards, progress, settings, level, mode,
                   reviewQueue, newQueue, currentCard, currentKind, history,
                   saveDebounceTimer, currentUser, localStorage, lastSaved>>
    /\ UNCHANGED <<timers, currentIdToken, authMessage>>
    /\ UNCHANGED netVars

\* history field of a suspended load: the words graded since it started, with the time
MarkGraded(ls, w, now) ==
    [i \in 1..Len(ls) |->
        [ls[i] EXCEPT !.graded = [x \in DOMAIN @ \cup {w} |-> IF x = w THEN now ELSE @[x]]]]

RECURSIVE SumTotalReviews(_, _)
SumTotalReviews(p, ws) ==
    IF ws = {} THEN 0
    ELSE LET w == CHOOSE x \in ws : TRUE
         IN  p.cards[w].totalReviews + SumTotalReviews(p, ws \ {w})

\* the body of gradeCard(grade), without the bound on the number of gradings
gradeCardStep(grade) ==
    /\ currentCard # NoCard
    /\ showingAnswer
    /\ LET now == clock
           p == GradeProgress(progress, currentCard, currentKind, grade, now,
                              settings.dailyNewLimit, settings.lapseMinutes)
       IN  /\ progress' = p
           /\ timers' = DebounceTimers(timers, saveDebounceTimer, now)
           /\ saveDebounceTimer' = now + DebounceUnits
           /\ history' = PushHistory(history,
                  [word |-> currentCard, mode |-> mode, grade |-> grade, timestamp |-> now])
           /\ Rebuild(cards, p, level, settings.dailyNewLimit, now)
           /\ lastOp' = [name |-> "grade", word |-> currentCard, grade |-> grade,
                         kind |-> currentKind, now |-> now,
                         had |-> HasEntry(progress, currentCard),
                         entry |-> EntryOf(progress, currentCard, now),
                         meta |-> progress.meta,
                         limit |-> settings.dailyNewLimit,
                         lapseMinutes |-> settings.lapseMinutes,
                         displaced |-> IF lastOp.name = "reveal" THEN lastOp.displaced
                                       ELSE NoCard]
    /\ UNCHANGED <<clock, catalog, bootPc, cards, settings, level, mode, currentUser,
                   localStorage, lastSaved, currentIdToken, authMessage>>
    /\ loads' = MarkGraded(loads, currentCard, clock)
    /\ UNCHANGED <<remote, writes, deletes>>

\* gradeCard(grade), from the grade buttons or the keyboard once the answer is shown
gradeCard(grade) ==
    /\ SumTotalReviews(progress, DOMAIN progress.cards) < MaxReviews
    /\ Len(history) < MaxReviews
    /\ gradeCardStep(grade)

\* mutant: the level filter changes without a rebuild
handleLevelChange_NoRebuild(lvl) ==
    /\ level' = lvl
    /\ lastOp' = [name |-> "level", repeated |-> FALSE]
    /\ UNCHANGED <<clock, catalog, bootPc, cards, progress, settings, mode, history,
                   saveDebounceTimer, currentUser, localStorage, lastSaved>>
    /\ UNCHANGED <<timers, currentIdToken, authMessage>>
    /\ UNCHANGED queueVars
    /\ UNCHANGED netVars

\* handleLevelChange(event)
handleLevelChange(lvl) ==
    /\ level' = lvl
    /\ Rebuild(cards, progress, lvl, settings.dailyNewLimit, clock)
    /\ lastOp' = [name |-> "level", repeated |-> lastOp.name \in RebuildOps /\ lvl = level]
    /\ UNCHANGED <<clock, catalog, bootPc, cards, progress, settings, mode, history,
                   saveDebounceTimer, currentUser, localStorage, lastSaved>>
    /\ UNCHANGED <<timers, currentIdToken, authMessage>>
    /\ UNCHANGED netVars

\* handleSettingsChange(event) for the number input dailyNewLimit; the other inputs
\* (lapseMinutes, autoplayAudio, theme) keep the values loadSettings() restored
handleSettingsChange(value) ==
    /\ settings' = [settings EXCEPT !.dailyNewLimit = value]
    /\ Rebuild(cards, progress, level, value, clock)
    /\ lastOp' = [name |-> "settings",
                  repeated |-> lastOp.name \in RebuildOps /\ value = settings.dailyNewLimit]
    /\ UNCHANGED <<clock, catalog, bootPc, cards, progress, level, mode, history,
                   saveDebounceTimer, currentUser, localStorage, lastSaved>>
    /\ UNCHANGED <<timers, currentIdToken, authMessage>>
    /\ UNCHANGED netVars

\* mutant: the jump always takes the card for a new one
handleSearch_AlwaysNew(i) ==
    /\ i \in 1..Len(cards)
    /\ currentCard' = cards[i].word
    /\ currentKind' = "new"
    /\ showingAnswer' = FALSE
    /\ lastOp' = [name |-> "search", word |-> cards[i].word, displaced |-> NoCard]
    /\ UNCHANGED <<clock, catalog, bootPc, cards, progress, settings, level, mode,
                   reviewQueue, newQueue, history, saveDebounceTimer, currentUser,
                   localStorage, lastSaved>>
    /\ UNCHANGED <<timers, currentIdToken, authMessage>>
    /\ UNCHANGED netVars

\* click on a search result: a manual jump to a card of the catalog; lastOp keeps the
\* due review card the jump took off the screen, if any, and revealAnswer and gradeCard
\* pass it on (history fields)
handleSearch(i) ==
    /\ i \in 1..Len(cards)
    /\ currentCard' = cards[i].word
    /\ currentKind' = IF HasEntry(progress, cards[i].word) THEN "review" ELSE "new"
    /\ showingAnswer' = FALSE
    /\ lastOp' = [name |-> "search", word |-> cards[i].word,
                  displaced |-> IF /\ currentCard \notin {NoCard, cards[i].word}
                                   /\ currentKind = "review"
                                   /\ IsReviewCard(progress, currentCard, clock)
                                THEN currentCard ELSE NoCard]
    /\ UNCHANGED <<clock, catalog, bootPc, cards, progress, settings, level, mode,
                   reviewQueue, newQueue, history, saveDebounceTimer, currentUser,
                   localStorage, lastSaved>>
    /\ UNCHANGED <<timers, currentIdToken, authMessage>>
    /\ UNCHANGED netVars

\* the callback of the debounce timer: saveDebounceTimer = null; persistProgress()
DebounceFire ==
    \E t \in timers :
        /\ clock >= t
        /\ SendsWrite => InFlight < MaxInFlight
        /\ timers' = timers \ {t}
        /\ saveDebounceTimer' = NoTimer
        /\ LET r == persistProgress(localStorage, lastSaved, authMessage, writes,
                                    currentUser, currentIdToken, progress, history, clock)
           IN  /\ localStorage' = r.localStorage
               /\ lastSaved' = r.lastSaved
               /\ authMessage' = r.authMessage
               /\ writes' = r.writes
        /\ lastOp' = [name |-> "persist", signedIn |-> isSignedIn(currentUser),
                      due |-> t, now |-> clock]
        /\ UNCHANGED <<clock, catalog, bootPc, cards, progress, settings, level, mode,
                       reviewQueue, newQueue, currentCard, currentKind, showingAnswer,
                       history, currentUser, currentIdToken, remote, loads, deletes>>

\* resetProgress() after its try block: an empty snapshot is installed, then
\* saveProgress({immediate: true}), buildQueues(), showNextCard()
ResetTail(store, msg, outcome) ==
    LET p == createEmptyProgress(clock)
        r == persistProgress(store, lastSaved, msg, writes, currentUser, currentIdToken,
                             p, <<>>, clock)
    IN  /\ progress' = p
        /\ history' = <<>>
        /\ timers' = ImmediateTimers(timers, saveDebounceTimer)
        /\ saveDebounceTimer' = NoTimer
        /\ localStorage' = r.localStorage
        /\ lastSaved' = r.lastSaved
        /\ authMessage' = r.authMessage
        /\ writes' = r.writes
        /\ Rebuild(cards, p, level, settings.dailyNewLimit, clock)
        /\ lastOp' = [name |-> "reset", outcome |-> outcome,
                      sent |-> Len(r.writes) > Len(writes)]

\* resetProgress(), confirmed: without identity the cache entry is removed and the
\* handler runs to its end; with identity the DELETE is sent and the handler awaits
resetProgress ==
    /\ IF ~isSignedIn(currentUser)
       THEN /\ ResetTail(StoreRemove(localStorage, getProgressStorageKey(currentUser)),
                         authMessage, "local")
            /\ UNCHANGED <<remote, loads, deletes>>
       ELSE /\ InFlight < MaxInFlight
            /\ deletes' = Append(deletes, [sub |-> currentIdToken])
            /\ lastOp' = [name |-> "resetStart"]
            /\ UNCHANGED <<progress, history, timers, saveDebounceTimer, localStorage,
                           lastSaved, authMessage, writes, remote, loads>>
            /\ UNCHANGED queueVars
    /\ UNCHANGED <<clock, catalog, bootPc, cards, settings, level, mode, currentUser,
                   currentIdToken>>

\* the page is loaded again: module state is re-created (requests and timers of the old
\* page are gone), loadSettings() restores the persisted settings, initAuth() restores
\* the stored identity without token and runs loadProgress(), and bootstrap() awaits
\* the catalog
Reload ==
    /\ bootPc' = "fetching"
    /\ cards' = <<>>
    /\ currentIdToken' = NoToken
    /\ progress' = LoadLocal(localStorage, currentUser, clock)
    /\ authMessage' = IF isSignedIn(currentUser) THEN "waiting" ELSE ""
    /\ history' = <<>>
    /\ saveDebounceTimer' = NoTimer
    /\ timers' = {}
    /\ loads' = <<>>
    /\ writes' = <<>>
    /\ deletes' = <<>>
    /\ reviewQueue' = <<>>
    /\ newQueue' = <<>>
    /\ currentCard' = NoCard
    /\ currentKind' = "none"
    /\ showingAnswer' = FALSE
    /\ lastOp' = [name |-> "load",
                  hadStored |-> HasStoredProgress(localStorage, currentUser)]
    /\ UNCHANGED <<clock, catalog, settings, level, mode, currentUser, localStorage,
                   lastSaved, remote>>

-----------------------------------------------------------------------------
(* Specification: a fresh install used without identity *)

Init ==
    /\ clock = ClockStart
    /\ catalog \in Catalogs
    /\ bootPc = "fetching"
    /\ cards = <<>>
    /\ progress = createEmptyProgress(ClockStart)
    /\ settings = [dailyNewLimit |-> DEFAULT_dailyNewLimit,
                   lapseMinutes |-> DEFAULT_lapseMinutes]
    /\ level = "all"
    /\ mode = "en-ru"
    /\ reviewQueue = <<>>
    /\ newQueue = <<>>
    /\ currentCard = NoCard
    /\ currentKind = "none"
    /\ showingAnswer = FALSE
    /\ history = <<>>
    /\ saveDebounceTimer = NoTimer
    /\ timers = {}
    /\ currentUser = NoUser
    /\ currentIdToken = NoToken
    /\ authMessage = ""
    /\ remote = [u \in {} |-> TRUE]
    /\ loads = <<>>
    /\ writes = <<>>
    /\ deletes = <<>>
    /\ localStorage = [k \in {} |-> TRUE]
    /\ lastOp = [name |-> "init"]
    /\ lastSaved = [k \in {} |-> TRUE]

\* every handler but the search jump
Next ==
    \/ Tick
    \/ FetchCards
    \/ revealAnswer
    \/ \E g \in 0..3 : gradeCard(g)
    \/ \E lvl \in LevelChoices : handleLevelChange(lvl)
    \/ \E value \in LimitChoices : handleSettingsChange(value)
    \/ DebounceFire
    \/ resetProgress
    \/ Reload

Spec == Init /\ [][Next]_vars

-----------------------------------------------------------------------------
(* Specification: a session that starts from a stored snapshot holding one   *)
(* record, any record the data model admits; the scheduler is then driven by *)
(* gradings, search jumps and the clock.                                     *)

EaseChoices == {MinEase + 10, DefaultEase}
IntervalChoices == {0, 6}
RepetitionChoices == {0, 1, 2}
DueChoices == {0, ClockStart - 10, ClockStart + DayUnits}

StoredEntries ==
    [ease : EaseChoices, interval : IntervalChoices, repetitions : RepetitionChoices,
     due : DueChoices, lastReview : {0}, totalReviews : {0}, lapses : {0},
     seen : BOOLEAN]

StoredSnapshots(cat) ==
    {createEmptyProgress(ClockStart)} \cup
    {[cards |-> [x \in {w} |-> e], meta |-> createEmptyProgress(ClockStart).meta] :
        w \in {cat[i].word : i \in 1..Len(cat)}, e \in StoredEntries}

InitLoaded ==
    /\ clock = ClockStart
    /\ catalog = Catalog1
    /\ bootPc = "ready"
    /\ cards = catalog
    /\ progress \in StoredSnapshots(catalog)
    /\ settings \in [dailyNewLimit : {DEFAULT_dailyNewLimit}, lapseMinutes : LapseChoices]
    /\ level \in LevelChoices
    /\ mode = "en-ru"
    /\ LET r == pickNextCard(BuildQueues(catalog, progress, level,
                                         settings.dailyNewLimit, clock))
       IN  /\ reviewQueue = r.reviewQueue
           /\ newQueue = r.newQueue
           /\ currentCard = r.currentCard
           /\ currentKind = r.currentKind
    /\ showingAnswer = FALSE
    /\ history = <<>>
    /\ saveDebounceTimer = NoTimer
    /\ timers = {}
    /\ currentUser = NoUser
    /\ currentIdToken = NoToken
    /\ authMessage = ""
    /\ remote = [u \in {} |-> TRUE]
    /\ loads = <<>>
    /\ writes = <<>>
    /\ deletes = <<>>
    /\ localStorage = saveProgressToLocalStorage([k \in {} |-> TRUE], NoUser, progress)
    /\ lastOp = [name |-> "fetch"]
    /\ lastSaved = [k \in {} |-> TRUE]

NextLoaded ==
    \/ Tick
    \/ revealAnswer
    \/ \E g \in 0..3 : gradeCard(g)
    \/ \E i \in 1..Len(cards) : handleSearch(i)

SpecLoaded == InitLoaded /\ [][NextLoaded]_vars

-----------------------------------------------------------------------------
(* Specification: search jumps in a session with three cards, two of them    *)
(* with a due record                                                          *)

Catalog3 == Catalog2 \o << [word |-> "apple", level |-> "B1"] >>

JumpDues == {ClockStart - 20, ClockStart - 10}

\* a record graded once in an earlier session
JumpEntry(due) ==
    [ease |-> DefaultEase, interval |-> 1, repetitions |-> 1, due |-> due,
     lastReview |-> 0, totalReviews |-> 0, lapses |-> 0, seen |-> TRUE]

\* 'hello' and 'world' are due; 'apple' has no record, a due one or a later one
JumpSnapshots ==
    {[cards |-> c, meta |-> createEmptyProgress(ClockStart).meta] :
        c \in {[x \in {"hello", "world"} |-> JumpEntry(IF x = "hello" THEN d1 ELSE d2)] :
                  d1 \in JumpDues, d2 \in JumpDues}
            \cup
              {[x \in {"hello", "world", "apple"} |->
                    JumpEntry(IF x = "hello" THEN d1 ELSE IF x = "world" THEN d2 ELSE d3)] :
                  d1 \in JumpDues, d2 \in JumpDues,
                  d3 \in {ClockStart - 5, ClockStart + DayUnits}}}

InitJump ==
    /\ clock = ClockStart
    /\ catalog = Catalog3
    /\ bootPc = "ready"
    /\ cards = catalog
    /\ progress \in JumpSnapshots
    /\ settings = [dailyNewLimit |-> DEFAULT_dailyNewLimit,
                   lapseMinutes |-> DEFAULT_lapseMinutes]
    /\ level = "all"
    /\ mode = "en-ru"
    /\ LET r == pickNextCard(BuildQueues(catalog, progress, level,
                                         settings.dailyNewLimit, clock))
       IN  /\ reviewQueue = r.reviewQueue
           /\ newQueue = r.newQueue
           /\ currentCard = r.currentCard
           /\ currentKind = r.currentKind
    /\ showingAnswer = FALSE
    /\ history = <<>>
    /\ saveDebounceTimer = NoTimer
    /\ timers = {}
    /\ currentUser = NoUser
    /\ currentIdToken = NoToken
    /\ authMessage = ""
    /\ remote = [u \in {} |-> TRUE]
    /\ loads = <<>>
    /\ writes = <<>>
    /\ deletes = <<>>
    /\ localStorage = saveProgressToLocalStorage([k \in {} |-> TRUE], NoUser, progress)
    /\ lastOp = [name |-> "fetch"]
    /\ lastSaved = [k \in {} |-> TRUE]

\* the grades given in the sessions with jumps
JumpGrades == {0, 2}

NextJump ==
    \/ revealAnswer
    \/ \E g \in JumpGrades : gradeCard(g)
    \/ \E i \in 1..Len(cards) : handleSearch(i)

SpecJump == InitJump /\ [][NextJump]_vars

-----------------------------------------------------------------------------
(* Sync server: the handlers of /api/progress *)

sanitizeEntry(j) ==
    [ease |-> j.ease,
     interval |-> Max(0, j.interval),
     repetitions |-> Max(0, j.repetitions),
     due |-> Max(0, j.due),
     lastReview |-> j.lastReview,
     totalReviews |-> Max(0, j.totalReviews),
     lapses |-> Max(0, j.lapses),
     seen |-> IF "seen" \in DOMAIN j THEN j.seen ELSE FALSE]

sanitizeProgress(raw) ==
    [cards |-> [w \in DOMAIN raw.cards |-> sanitizeEntry(raw.cards[w])], meta |-> raw.meta]

sanitizeHistoryItem(item) ==
    [word |-> item.word,
     mode |-> IF item.mode \in ALLOWED_HISTORY_MODES THEN item.mode ELSE "en-ru",
     grade |-> Max(0, Min(3, item.grade)),
     timestamp |-> item.timestamp]

HasWord(item) == item.word # ""

sanitizeHistory(h) ==
    LET cut == Take(h, MAX_HISTORY_LENGTH)
    IN  SelectSeq([i \in 1..Len(cut) |-> sanitizeHistoryItem(cut[i])], HasWord)

\* app.get('/api/progress'): the body of the 200 response
ServerGet(store, sub) ==
    [progress |-> sanitizeProgress(store[sub].progress),
     history |-> sanitizeHistory(store[sub].history)]

\* app.post('/api/progress')
ServerPost(store, sub, body) ==
    StorePut(store, sub, [progress |-> sanitizeProgress(body.progress),
                          history |-> sanitizeHistory(body.history)])

\* app.delete('/api/progress')
ServerDelete(store, sub) == StoreRemove(store, sub)

-----------------------------------------------------------------------------
(* Sync Reconciler: identity and loading, client of the sync server *)

\* the identities that sign in
Users == {"ann"}

\* loadProgressFromLocalStorage() at the start of loadProgress(): <<>> stands for null
StoredProgress(store, user) ==
    IF HasStoredProgress(store, user)
    THEN <<loadProgressFromLocalStorage(store, user)>>
    ELSE <<>>

\* mutant: the local cache is no fallback either
Fallback_EmptyOnly(stored, fallbackProgress, now) == createEmptyProgress(now)

\* mutant: the snapshot in memory before the load is no fallback
Fallback_StoredOrEmpty(stored, fallbackProgress, now) ==
    IF stored # <<>> THEN stored[1] ELSE createEmptyProgress(now)

\* const fallback = storedProgress || fallbackProgress
Fallback(stored, fallbackProgress, now) ==
    IF stored # <<>> THEN stored[1] ELSE fallbackProgress

\* handleCredentialResponse(response) with a credential for identity u: the token is
\* stored, setCurrentUser() runs handleUserChange() (the identity differs, or forceReload),
\* and loadProgress() installs an empty snapshot and awaits the GET
handleCredentialResponseStep(u) ==
    /\ currentIdToken' = u
    /\ currentUser' = u
    /\ loads' = Append(loads,
          [sub |-> u,
           storedProgress |-> StoredProgress(localStorage, u),
           fallbackProgress |-> JSONparse(JSONstringify(progress)),
           fallbackHistory |-> history,
           previous |-> currentUser,
           graded |-> [x \in {} |-> 0]])
    /\ progress' = createEmptyProgress(clock)
    /\ history' = <<>>
    /\ lastOp' = [name |-> "credential", sub |-> u]
    /\ UNCHANGED <<clock, catalog, bootPc, cards, settings, level, mode, timers,
                   saveDebounceTimer, localStorage, lastSaved, authMessage, remote,
                   writes, deletes>>
    /\ UNCHANGED queueVars

\* handleCredentialResponse(response), bounded by the number of requests in flight
handleCredentialResponse(u) ==
    /\ InFlight < MaxInFlight
    /\ Len(loads) < MaxLoads
    /\ handleCredentialResponseStep(u)

\* signOut(): the token is dropped and setCurrentUser(null) runs handleUserChange();
\* loadProgress() without identity does not await
signOut ==
    /\ isSignedIn(currentUser)
    /\ currentIdToken' = NoToken
    /\ currentUser' = NoUser
    /\ progress' = LoadLocal(localStorage, NoUser, clock)
    /\ history' = <<>>
    /\ authMessage' = ""
    /\ IF Len(cards) > 0
       THEN Rebuild(cards, progress', level, settings.dailyNewLimit, clock)
       ELSE UNCHANGED queueVars
    /\ lastOp' = [name |-> "loaded", outcome |-> "local", sub |-> NoUser,
                  switched |-> TRUE,
                  storedProgress |-> StoredProgress(localStorage, NoUser),
                  fallbackProgress |-> progress,
                  payload |-> <<>>, prompted |-> FALSE, graded |-> [x \in {} |-> 0]]
    /\ UNCHANGED <<clock, catalog, bootPc, cards, settings, level, mode, timers,
                   saveDebounceTimer, localStorage, lastSaved>>
    /\ UNCHANGED netVars

LoadOutcomes == {"ok", "401", "404", "error"}

\* loadProgress() resumed by the response to its GET, then the rest of
\* handleUserChange(): if (cards.length) { buildQueues(); showNextCard(); }
loadProgressResume(i, outcome) ==
    /\ i \in 1..Len(loads)
    /\ outcome = "ok" => loads[i].sub \in DOMAIN remote
    /\ outcome = "404" => loads[i].sub \notin DOMAIN remote
    /\ LET l == loads[i]
           token == IF outcome = "401" THEN NoToken ELSE currentIdToken
           ok == outcome = "ok"
           payload == IF ok THEN <<ServerGet(remote, l.sub)>> ELSE <<>>
           p0 == IF ok THEN payload[1].progress
                 ELSE Fallback(l.storedProgress, l.fallbackProgress, clock)
           h0 == IF ok THEN Take(payload[1].history, MAX_HISTORY_LENGTH)
                 ELSE l.fallbackHistory
           expired == isSignedIn(currentUser) /\ token = NoToken
           local == LocalWrite(localStorage, lastSaved, currentUser, p0, clock)
           p == ensureProgressForToday(p0, clock)
       IN  /\ currentIdToken' = token
           /\ progress' = p
           /\ history' = Take(h0, HISTORY_SESSION)
           /\ localStorage' = IF ok THEN local.localStorage ELSE localStorage
           /\ lastSaved' = IF ok THEN local.lastSaved ELSE lastSaved
           /\ authMessage' = IF ok THEN ""
                             ELSE IF outcome = "404" THEN "unavailable"
                             ELSE IF expired THEN "reauth" ELSE "loadFailed"
           /\ loads' = RemoveAt(loads, i)
           /\ IF Len(cards) > 0
              THEN Rebuild(cards, p, level, settings.dailyNewLimit, clock)
              ELSE UNCHANGED queueVars
           /\ lastOp' = [name |-> "loaded", outcome |-> outcome, sub |-> l.sub,
                         switched |-> l.previous # l.sub,
                         storedProgress |-> l.storedProgress,
                         fallbackProgress |-> l.fallbackProgress,
                         payload |-> payload,
                         prompted |-> outcome \in {"401", "error"} /\ expired,
                         graded |-> l.graded]
    /\ UNCHANGED <<clock, catalog, bootPc, cards, settings, level, mode, timers,
                   saveDebounceTimer, currentUser, remote, writes, deletes>>

WriteOutcomes == {"ok", "401", "404", "error"}

\* persistProgress() resumed by the response to its POST
persistProgressResume(i, outcome) ==
    /\ i \in 1..Len(writes)
    /\ LET w == writes[i]
           local == LocalWrite(localStorage, lastSaved, currentUser, progress, clock)
       IN  /\ remote' = IF outcome = "ok" THEN ServerPost(remote, w.sub, w.body)
                        ELSE remote
           /\ currentIdToken' = IF outcome = "401" THEN NoToken ELSE currentIdToken
           /\ localStorage' = local.localStorage
           /\ lastSaved' = local.lastSaved
           /\ authMessage' = IF outcome = "ok" THEN ""
                             ELSE IF outcome = "401" THEN "reauth"
                             ELSE IF outcome = "404" THEN "unavailable"
                             ELSE "saveFailed"
           /\ writes' = RemoveAt(writes, i)
           /\ lastOp' = [name |-> "written", outcome |-> outcome, sub |-> w.sub,
                         thrown |-> outcome \in {"401", "error"}]
    /\ UNCHANGED <<clock, catalog, bootPc, cards, progress, settings, level, mode,
                   history, timers, saveDebounceTimer, currentUser, loads, deletes>>
    /\ UNCHANGED queueVars

DeleteOutcomes == {"ok", "error"}

\* resetProgress() resumed by the response to its DELETE
resetProgressResume(i, outcome) ==
    /\ i \in 1..Len(deletes)
    /\ outcome = "ok" => deletes[i].sub # NoToken
    /\ remote' = IF outcome = "ok" /\ deletes[i].sub \in DOMAIN remote
                 THEN ServerDelete(remote, deletes[i].sub)
                 ELSE remote
    /\ deletes' = RemoveAt(deletes, i)
    /\ ResetTail(localStorage, IF outcome = "ok" THEN "" ELSE "resetFailed", outcome)
    /\ UNCHANGED <<clock, catalog, bootPc, cards, settings, level, mode, currentUser,
                   currentIdToken, loads>>

-----------------------------------------------------------------------------
(* Specifications with identities and the sync server. The sessions start    *)
(* with the catalog loaded and the first card served.                        *)

\* the grades and the level filter exercised in the sessions with identity
SyncGrades == {2}
SyncLevels == {"all"}

\* a record as the server returns it: graded once, the day before the session
ServerEntry ==
    [ease |-> DefaultEase, interval |-> 1, repetitions |-> 1, due |-> ClockStart - 10,
     lastReview |-> ClockStart - DayUnits, totalReviews |-> 1, lapses |-> 0,
     seen |-> TRUE]

RemoteDoc ==
    [progress |-> [cards |-> [x \in {"hello"} |-> ServerEntry],
                   meta |-> createEmptyProgress(ClockStart).meta],
     history |-> <<[word |-> "hello", mode |-> "ru-en", grade |-> 2,
                    timestamp |-> ClockStart - DayUnits]>>]

RemoteChoices == {[u \in {} |-> TRUE], [u \in {"ann"} |-> RemoteDoc]}

\* a local cache entry written in an earlier session under ann's key
CachedSnapshot ==
    [cards |-> [x \in {"hello"} |-> [ServerEntry EXCEPT !.lapses = 1]],
     meta |-> createEmptyProgress(ClockStart).meta]

CacheChoices ==
    {[k \in {} |-> TRUE],
     saveProgressToLocalStorage([k \in {} |-> TRUE], "ann", CachedSnapshot)}

InitPage ==
    /\ clock = ClockStart
    /\ catalog = Catalog1
    /\ bootPc = "ready"
    /\ cards = catalog
    /\ progress = createEmptyProgress(ClockStart)
    /\ settings = [dailyNewLimit |-> DEFAULT_dailyNewLimit,
                   lapseMinutes |-> DEFAULT_lapseMinutes]
    /\ level = "all"
    /\ mode = "en-ru"
    /\ reviewQueue = <<>>
    /\ newQueue = <<>>
    /\ currentCard = "hello"
    /\ currentKind = "new"
    /\ showingAnswer = FALSE
    /\ history = <<>>
    /\ saveDebounceTimer = NoTimer
    /\ timers = {}
    /\ authMessage = ""
    /\ loads = <<>>
    /\ writes = <<>>
    /\ deletes = <<>>
    /\ lastSaved = [k \in {} |-> TRUE]

InitSession ==
    /\ InitPage
    /\ lastOp = [name |-> "fetch"]

\* identity changes and loads, interleaved with the learner's events
InitIdentity ==
    /\ InitSession
    /\ currentUser = NoUser
    /\ currentIdToken = NoToken
    /\ remote \in RemoteChoices
    /\ localStorage \in CacheChoices

NextIdentity ==
    \/ revealAnswer
    \/ \E g \in SyncGrades : gradeCard(g)
    \/ \E lvl \in SyncLevels : handleLevelChange(lvl)
    \/ \E u \in Users : handleCredentialResponse(u)
    \/ signOut
    \/ \E i \in 1..MaxLoads, o \in LoadOutcomes : loadProgressResume(i, o)

SpecIdentity == InitIdentity /\ [][NextIdentity]_vars

\* saves and resets of a session that starts without identity, with identity and
\* token, or with identity and an expired token
InitSave ==
    /\ InitSession
    /\ currentUser \in {NoUser, "ann"}
    /\ currentIdToken \in {NoToken, currentUser}
    /\ remote = [u \in {} |-> TRUE]
    /\ localStorage = [k \in {} |-> TRUE]

NextSave ==
    \/ Tick
    \/ revealAnswer
    \/ \E g \in SyncGrades : gradeCard(g)
    \/ DebounceFire
    \/ resetProgress
    \/ signOut
    \/ \E i \in 1..MaxInFlight, o \in WriteOutcomes : persistProgressResume(i, o)
    \/ \E i \in 1..MaxInFlight, o \in DeleteOutcomes : resetProgressResume(i, o)

SpecSave == InitSave /\ [][NextSave]_vars

\* an identity without credential: initAuth() has restored the stored identity and
\* loaded its cache (notice "waiting"), or a 401 has cleared the credential (notice
\* "reauth"); the learner goes on grading, resets, and loads the page again
InitPending ==
    /\ clock = ClockStart
    /\ catalog = Catalog1
    /\ bootPc = "ready"
    /\ cards = catalog
    /\ currentUser = "ann"
    /\ currentIdToken = NoToken
    /\ remote = [u \in {} |-> TRUE]
    /\ localStorage \in CacheChoices
    /\ progress = LoadLocal(localStorage, currentUser, ClockStart)
    /\ settings = [dailyNewLimit |-> DEFAULT_dailyNewLimit,
                   lapseMinutes |-> DEFAULT_lapseMinutes]
    /\ level = "all"
    /\ mode = "en-ru"
    /\ LET r == pickNextCard(BuildQueues(catalog, progress, level,
                                         settings.dailyNewLimit, clock))
       IN  /\ reviewQueue = r.reviewQueue
           /\ newQueue = r.newQueue
           /\ currentCard = r.currentCard
           /\ currentKind = r.currentKind
    /\ showingAnswer = FALSE
    /\ history = <<>>
    /\ saveDebounceTimer = NoTimer
    /\ timers = {}
    /\ authMessage \in {"waiting", "reauth"}
    /\ loads = <<>>
    /\ writes = <<>>
    /\ deletes = <<>>
    /\ lastOp = [name |-> "fetch"]
    /\ lastSaved = [k \in {} |-> TRUE]

NextPending ==
    \/ Tick
    \/ FetchCards
    \/ revealAnswer
    \/ \E g \in SyncGrades : gradeCard(g)
    \/ DebounceFire
    \/ Reload
    \/ resetProgress
    \/ \E i \in 1..MaxInFlight, o \in DeleteOutcomes : resetProgressResume(i, o)

SpecPending == InitPending /\ [][NextPending]_vars

-----------------------------------------------------------------------------
(* Properties *)

Today == getTodayKey(clock)

JustGraded == lastOp.name = "grade"

\* the record of the word just graded, and the entry gradeCard started from
GradedEntry == progress.cards[lastOp.word]
PriorEntry == lastOp.entry

\* buildQueues()'s review and new queues, read back after pickNextCard() took the head
BuiltReview == (IF currentKind = "review" THEN <<currentCard>> ELSE <<>>) \o reviewQueue
BuiltNew == (IF currentKind = "new" THEN <<currentCard>> ELSE <<>>) \o newQueue

SeqSet(q) == {q[i] : i \in 1..Len(q)}

\* C1: a grade of Again leaves interval 0, repetitions 0, due = now + lapseMinutes
\* minutes, ease lowered by 0.2 but not below 1.3, and lapses one higher, whatever the
\* record was (also when there was none).
C1_AgainLapses ==
    (JustGraded /\ lastOp.grade = 0) =>
        /\ GradedEntry.interval = 0
        /\ GradedEntry.repetitions = 0
        /\ GradedEntry.due = lastOp.now + lastOp.lapseMinutes * MinuteUnits
        /\ GradedEntry.ease =
              (IF PriorEntry.ease - 20 >= 130 THEN PriorEntry.ease - 20 ELSE 130)
        /\ GradedEntry.lapses = PriorEntry.lapses + 1

C1_Witness ==
    /\ JustGraded /\ lastOp.grade = 0
    /\ lastOp.had
    /\ PriorEntry.interval = 6 /\ PriorEntry.repetitions = 2
    /\ lastOp.lapseMinutes = 1

\* C2: a record with repetitions 0 (or no record) graded Good gets interval 1, graded
\* Easy gets interval 4, whatever its interval and ease were.
C2_FirstStep ==
    (JustGraded /\ PriorEntry.repetitions = 0) =>
        /\ lastOp.grade = 2 => GradedEntry.interval = 1
        /\ lastOp.grade = 3 => GradedEntry.interval = 4

C2_Witness ==
    /\ JustGraded /\ lastOp.grade = 3
    /\ lastOp.had
    /\ PriorEntry.repetitions = 0 /\ PriorEntry.interval = 6
    /\ PriorEntry.ease = MinEase + 10

\* C3: every record of the snapshot has ease >= 1.3 and interval >= 0, and the record
\* just graded has its due set; Again and Hard grades on a record at the floor leave
\* ease at 1.3.
C3_EaseFloor ==
    /\ \A w \in DOMAIN progress.cards :
          progress.cards[w].ease >= 130 /\ progress.cards[w].interval >= 0
    /\ JustGraded => GradedEntry.due > 0

C3_Witness ==
    /\ JustGraded /\ lastOp.grade \in {0, 1}
    /\ PriorEntry.totalReviews >= 1
    /\ PriorEntry.ease = 130
    /\ GradedEntry.ease = 130

\* the record of the scenario: repetitions 1, interval 6, ease 2.5, due 1000 ms ago
C4_Scenario ==
    /\ JustGraded /\ lastOp.grade = 2
    /\ lastOp.had
    /\ PriorEntry.repetitions = 1 /\ PriorEntry.interval = 6 /\ PriorEntry.ease = 250
    /\ PriorEntry.due = lastOp.now - 10

\* C4 as stated: Good on that record gives interval round(6 * 2.5) = 15, repetitions 2
\* and due = now + 15 days.
C4_Original ==
    C4_Scenario =>
        /\ GradedEntry.interval = 15
        /\ GradedEntry.repetitions = 2
        /\ GradedEntry.due = lastOp.now + 15 * DayUnits

\* C4 amended: Good on that record gives interval 6 (the fixed second step),
\* repetitions 2 and due = now + 6 days.
C4_SecondStep ==
    C4_Scenario =>
        /\ GradedEntry.interval = 6
        /\ GradedEntry.repetitions = 2
        /\ GradedEntry.due = lastOp.now + 6 * DayUnits

C4_Witness == C4_Scenario /\ GradedEntry.interval = 6

\* C5 as stated: meta.newToday never exceeds the configured dailyNewLimit.
C5_NewTodayWithinLimit == progress.meta.newToday <= settings.dailyNewLimit

\* C6: a grading or a load leaves lastReviewDay at the current day; on the first one of
\* a new day the counters restart from 0, and on a later one of the same day they are
\* not reset: reviewsToday goes up by one and newToday is kept (or clamped to the limit).
C6_RolloverOnce ==
    /\ JustGraded =>
          /\ progress.meta.lastReviewDay = getTodayKey(lastOp.now)
          /\ IF lastOp.meta.lastReviewDay # getTodayKey(lastOp.now)
             THEN /\ progress.meta.reviewsToday = 1
                  /\ progress.meta.newToday <= 1
             ELSE /\ progress.meta.reviewsToday = lastOp.meta.reviewsToday + 1
                  /\ progress.meta.newToday >= Min(lastOp.meta.newToday, lastOp.limit)
    /\ lastOp.name = "load" =>
          /\ progress.meta.lastReviewDay = Today
          /\ lastOp.hadStored =>
                LET stored == localStorage[getProgressStorageKey(currentUser)].meta
                IN  IF stored.lastReviewDay # Today
                    THEN progress.meta.reviewsToday = 0 /\ progress.meta.newToday = 0
                    ELSE progress.meta = stored

C6_Witness ==
    /\ JustGraded
    /\ lastOp.meta.lastReviewDay # getTodayKey(lastOp.now)
    /\ lastOp.meta.reviewsToday >= 1
    /\ lastOp.meta.newToday >= 1
    /\ progress.meta.reviewsToday = 1

\* the cards of the catalog that pass the level filter and have no record or no due
FreshWords ==
    {cards[i].word : i \in {j \in 1..Len(cards) :
        /\ matchesLevel(cards[j], level)
        /\ \/ cards[j].word \notin DOMAIN progress.cards
           \/ progress.cards[cards[j].word].due = 0}}

\* C7 as stated: a rebuild on a new day (level or limit change) computes the new-word
\* quota from counters that were already reset, that is from newToday = 0.
C7_RebuildSeesResetCounters ==
    (lastOp.name \in {"level", "settings"} /\ progress.meta.lastReviewDay # Today) =>
        Len(BuiltNew) = Min(Cardinality(FreshWords), Max(0, settings.dailyNewLimit - 0))

\* C8: after a rebuild, a card that passes the level filter is in the review queue iff
\* it has a record with due <= now, in neither queue if its due is later, and a
\* candidate for the new queue (kept out of it by the quota only) if it has no record
\* or no due; a card that does not pass the filter is in neither queue. One card
\* 'hello' with an empty snapshot and limit 20 gives newQueue = <<hello>>, no review.
C8_Classification ==
    lastOp.name \in RebuildOps =>
        /\ \A i \in 1..Len(cards) :
              LET w == cards[i].word
                  has == w \in DOMAIN progress.cards
              IN  IF ~matchesLevel(cards[i], level)
                  THEN w \notin SeqSet(BuiltReview) \cup SeqSet(BuiltNew)
                  ELSE IF has /\ progress.cards[w].due # 0
                  THEN /\ w \notin SeqSet(BuiltNew)
                       /\ w \in SeqSet(BuiltReview) <=> progress.cards[w].due <= clock
                  ELSE /\ w \notin SeqSet(BuiltReview)
                       /\ \/ w \in SeqSet(BuiltNew)
                          \/ Len(BuiltNew) = Max(0, settings.dailyNewLimit
                                                    - progress.meta.newToday)
        /\ (/\ cards = Catalog1
            /\ progress.cards = EmptyCards
            /\ level = "all"
            /\ settings.dailyNewLimit = 20)
              => BuiltNew = <<"hello">> /\ BuiltReview = <<>>

C8_Witness ==
    /\ lastOp.name = "grade"
    /\ level = "all"
    /\ "hello" \in DOMAIN progress.cards
    /\ lastOp.entry.due = 0 /\ lastOp.had /\ lastOp.kind = "new"
    /\ progress.cards["hello"].due > clock
    /\ BuiltNew = <<>> /\ BuiltReview = <<>>

\* C9: a rebuild leaves the snapshot as it was, and a rebuild repeated with the same
\* catalog, snapshot, level, limit and clock gives the same queues and the same card.
C9_RebuildRepeatable ==
    [][/\ lastOp'.name \in {"level", "settings"} => progress' = progress
       /\ (lastOp'.name \in {"level", "settings"} /\ lastOp'.repeated)
             => queueVars' = queueVars]_vars

C9_Witness ==
    /\ lastOp.name = "level" /\ lastOp.repeated
    /\ currentKind = "review"
    /\ newQueue # <<>>

\* the snapshot last written under the current storage key
SavedHere == lastSaved[getProgressStorageKey(currentUser)]

JustLoadedSaved ==
    /\ lastOp.name = "load"
    /\ getProgressStorageKey(currentUser) \in DOMAIN lastSaved

\* C10 as stated: without identity, a load on the calendar day of the save gives the
\* snapshot that was saved.
C10_Original ==
    (JustLoadedSaved /\ SavedHere.day = Today) => progress = SavedHere.progress

\* C10 amended: without identity, a load on the calendar day recorded in the saved
\* snapshot (meta.lastReviewDay) gives the snapshot that was saved.
C10_RoundTrip ==
    (JustLoadedSaved /\ SavedHere.progress.meta.lastReviewDay = Today)
        => progress = SavedHere.progress

C10_Witness ==
    /\ JustLoadedSaved
    /\ SavedHere.progress.meta.lastReviewDay = Today
    /\ progress.meta.reviewsToday = 2
    /\ \E w \in DOMAIN progress.cards : progress.cards[w].seen
    /\ \E w \in DOMAIN progress.cards : progress.cards[w].lapses = 1

\* C11: while no identity is present, no step (a debounced or immediate save, a load,
\* the end of a reset) sends a request, and the local cache changes under the
\* unauthenticated storage key only; a debounced save writes the snapshot there.
C11_LocalOnlyWithoutIdentity ==
    [][currentUser' = NoUser =>
          /\ Len(loads') <= Len(loads)
          /\ Len(writes') <= Len(writes)
          /\ Len(deletes') <= Len(deletes)
          /\ \A k \in DOMAIN localStorage' :
                k # <<STORAGE_KEY>> => k \in DOMAIN localStorage
                                       /\ localStorage'[k] = localStorage[k]
          /\ (lastOp'.name = "persist" /\ currentUser = NoUser) =>
                /\ <<STORAGE_KEY>> \in DOMAIN localStorage'
                /\ JSONparse(localStorage'[<<STORAGE_KEY>>]) = progress]_vars

C11_Witness ==
    /\ lastOp.name = "persist"
    /\ ~lastOp.signedIn
    /\ currentUser = NoUser
    /\ writes = <<>>
    /\ <<STORAGE_KEY>> \in DOMAIN localStorage
    /\ "hello" \in DOMAIN localStorage[<<STORAGE_KEY>>].cards

\* a load whose GET was answered 401 has just completed
C12_Unauthorized == lastOp.name = "loaded" /\ lastOp.outcome = "401"

C13_Switched == lastOp.name = "loaded" /\ lastOp.switched

\* C13 as stated: after a switch to identity B and the completion of B's load, the
\* snapshot holds B's remote document, B's local cache or nothing, and the history
\* holds B's remote history or nothing, whatever the load branch.
C13_NoLeakAcrossIdentities ==
    C13_Switched =>
        /\ \/ progress.cards = EmptyCards
           \/ lastOp.payload # <<>> /\ progress.cards = lastOp.payload[1].progress.cards
           \/ /\ lastOp.storedProgress # <<>>
              /\ progress.cards = lastOp.storedProgress[1].cards
        /\ \/ history = <<>>
           \/ lastOp.payload # <<>> /\ history = lastOp.payload[1].history

\* C14 as stated: no queue rebuild (grading, level change, limit change) runs while a
\* load started by an identity change is awaiting its response.
C14_NoRebuildWhileLoading ==
    lastOp.name \in {"grade", "level", "settings"} =>
        \A i \in 1..Len(loads) : loads[i].previous = loads[i].sub

\* C15 as stated: a grading recorded between the start and the completion of a load is
\* still in the snapshot once the load has completed.
C15_GradeSurvivesLoad ==
    lastOp.name = "loaded" =>
        \A w \in DOMAIN lastOp.graded :
            /\ w \in DOMAIN progress.cards
            /\ progress.cards[w].lastReview = lastOp.graded[w]

\* C16: at most one debounce timer is pending, and it is the one saveDebounceTimer
\* holds; a grading leaves exactly the timer due 400 ms after it, so an earlier pending
\* one was cancelled; the timer's callback runs no earlier than 400 ms after the last
\* grading and leaves no timer behind, so a burst of gradings ends in one save.
C16_DebounceCoalesces ==
    /\ Cardinality(timers) <= 1
    /\ timers = (IF saveDebounceTimer = NoTimer THEN {} ELSE {saveDebounceTimer})
    /\ JustGraded => timers = {lastOp.now + (400 \div 100)}
    /\ lastOp.name = "persist" =>
          /\ timers = {}
          /\ lastOp.now >= lastOp.due
          /\ history # <<>> => lastOp.due = history[1].timestamp + (400 \div 100)

C16_Witness ==
    /\ lastOp.name = "persist"
    /\ Len(history) = 2
    /\ history[1].timestamp = history[2].timestamp
    /\ lastOp.due = history[1].timestamp + DebounceUnits
    /\ Cardinality(DOMAIN localStorage[<<STORAGE_KEY>>].cards) = 2

\* C17 as stated: no two remote writes of the same identity are in flight together.
C17_OneWriteInFlight ==
    \A i, j \in 1..Len(writes) : i # j => writes[i].sub # writes[j].sub

\* the continuation of persistProgress() after the POST has just run
C18_Written == lastOp.name = "written"

\* the local cache entry of the current identity holds the current snapshot
C18_LocalHoldsSnapshot ==
    /\ getProgressStorageKey(currentUser) \in DOMAIN localStorage
    /\ JSONparse(localStorage[getProgressStorageKey(currentUser)]) = progress

\* C18 as stated: whatever the outcome of the remote write (success, 401, 404, other
\* status, rejection) the local cache is written with the current snapshot, and every
\* remote failure shows a notice and is re-thrown.
C18_Original ==
    C18_Written =>
        /\ C18_LocalHoldsSnapshot
        /\ lastOp.outcome # "ok" => authMessage # "" /\ lastOp.thrown

\* C18 amended: whatever the outcome the local cache is written with the current
\* snapshot; a 401, another status or a rejection shows a notice and is re-thrown, a
\* 404 shows the notice and returns normally, a success clears the notice.
C18_LocalWriteAlways ==
    C18_Written =>
        /\ C18_LocalHoldsSnapshot
        /\ lastOp.outcome = "ok" => authMessage = "" /\ ~lastOp.thrown
        /\ lastOp.outcome = "404" => authMessage = "unavailable" /\ ~lastOp.thrown
        /\ lastOp.outcome = "401" =>
              authMessage = "reauth" /\ lastOp.thrown /\ currentIdToken = NoToken
        /\ lastOp.outcome = "error" => authMessage = "saveFailed" /\ lastOp.thrown

C18_Witness ==
    /\ C18_Written
    /\ lastOp.outcome = "error"
    /\ currentUser = "ann"
    /\ "hello" \in DOMAIN progress.cards
    /\ "ann" \notin DOMAIN remote
    /\ <<STORAGE_KEY, "ann">> \in DOMAIN localStorage

\* C19: after a rebuild the head of the review queue is served as 'review' if there is
\* one, else the head of the new queue as 'new', else no card; the served card is
\* removed from its queue, and no new card is served while a review card is queued.
C19_ReviewFirst ==
    /\ currentKind = "new" => reviewQueue = <<>>
    /\ currentKind = "none" => currentCard = NoCard /\ reviewQueue = <<>> /\ newQueue = <<>>
    /\ lastOp.name \in RebuildOps =>
          LET review == ReviewBucket(cards, progress, level, clock)
              fresh == NewBucket(cards, progress, level, settings.dailyNewLimit)
          IN  IF review # <<>>
              THEN /\ currentCard = Head(review) /\ currentKind = "review"
                   /\ reviewQueue = Tail(review) /\ newQueue = fresh
              ELSE IF fresh # <<>>
              THEN /\ currentCard = Head(fresh) /\ currentKind = "new"
                   /\ reviewQueue = <<>> /\ newQueue = Tail(fresh)
              ELSE /\ currentCard = NoCard /\ currentKind = "none"
                   /\ reviewQueue = <<>> /\ newQueue = <<>>

C19_Witness ==
    /\ lastOp.name \in RebuildOps
    /\ currentCard = "hello" /\ currentKind = "review"
    /\ reviewQueue = <<>>
    /\ newQueue = <<"world">>

\* C20: when resetProgress has completed, with or without a successful remote delete,
\* the snapshot is empty with both counters 0, the history is empty, no debounce timer
\* is pending, the immediate persist of the empty snapshot has started (the POST is in
\* flight, or the local cache holds the empty snapshot), and the queues are those of
\* the empty snapshot.
C20_ResetCompletes ==
    lastOp.name = "reset" =>
        /\ progress.cards = EmptyCards
        /\ progress.meta = [lastReviewDay |-> Today, reviewsToday |-> 0, newToday |-> 0]
        /\ history = <<>>
        /\ saveDebounceTimer = NoTimer
        /\ timers = {}
        /\ IF lastOp.sent
           THEN /\ writes # <<>>
                /\ writes[Len(writes)].body.progress.cards = EmptyCards
                /\ writes[Len(writes)].body.history = <<>>
           ELSE C18_LocalHoldsSnapshot
        /\ BuiltReview = <<>>
        /\ BuiltNew = WordsOf(cards)

C20_Witness ==
    /\ lastOp.name = "reset"
    /\ lastOp.outcome = "error"
    /\ lastOp.sent
    /\ authMessage = "resetFailed"
    /\ "ann" \in DOMAIN remote
    /\ currentCard = "hello"

\* a load whose GET was answered with the stored document has just completed
C21_Succeeded == lastOp.name = "loaded" /\ lastOp.outcome = "ok"

\* C21 as stated: after a successful remote load the snapshot is the remote snapshot,
\* day-rolled, the local cache entry of the identity that loaded holds the remote
\* snapshot, and the sync notice is cleared.
C21_RemoteAdopted ==
    C21_Succeeded =>
        /\ progress = ensureProgressForToday(lastOp.payload[1].progress, clock)
        /\ getProgressStorageKey(lastOp.sub) \in DOMAIN localStorage
        /\ JSONparse(localStorage[getProgressStorageKey(lastOp.sub)])
              = lastOp.payload[1].progress
        /\ authMessage = ""

\* a load whose GET was answered 404 has just completed
C22_NotFound == lastOp.name = "loaded" /\ lastOp.outcome = "404"

C23_NoCredentialLocalOnly ==
    [][(currentUser' # NoUser /\ currentIdToken' = NoToken) =>
          /\ Len(loads') <= Len(loads)
          /\ Len(writes') <= Len(writes)
          /\ lastOp'.name = "load" =>
                /\ authMessage' = "waiting"
                /\ progress'.cards =
                      (IF <<STORAGE_KEY, currentUser'>> \in DOMAIN localStorage
                       THEN JSONparse(localStorage[<<STORAGE_KEY, currentUser'>>]).cards
                       ELSE EmptyCards)
                /\ progress'.meta.lastReviewDay = getTodayKey(clock')
                /\ localStorage' = localStorage
          /\ lastOp'.name \in {"persist", "reset"} =>
                /\ <<STORAGE_KEY, currentUser'>> \in DOMAIN localStorage'
                /\ JSONparse(localStorage'[<<STORAGE_KEY, currentUser'>>]) = progress'
                /\ \A k \in DOMAIN localStorage' :
                      k # <<STORAGE_KEY, currentUser'>> =>
                          k \in DOMAIN localStorage /\ localStorage'[k] = localStorage[k]]_vars

C23_Witness ==
    /\ lastOp.name = "load"
    /\ currentUser = "ann"
    /\ currentIdToken = NoToken
    /\ authMessage = "waiting"
    /\ writes = <<>> /\ loads = <<>>
    /\ lastOp.hadStored
    /\ "hello" \in DOMAIN progress.cards
    /\ progress.cards["hello"].totalReviews = 2
    /\ progress.meta.reviewsToday = 0

\* C24: a grade of Good leaves the ease as it was and raises repetitions by one; from
\* repetitions 1 the interval becomes 6, from repetitions 2 or more it becomes
\* max(1, round(interval * ease)); due = now + interval days.
C24_Good ==
    (JustGraded /\ lastOp.grade = 2) =>
        /\ GradedEntry.ease = PriorEntry.ease
        /\ GradedEntry.repetitions = PriorEntry.repetitions + 1
        /\ PriorEntry.repetitions = 1 => GradedEntry.interval = 6
        /\ PriorEntry.repetitions >= 2 =>
              LET rounded == (PriorEntry.interval * PriorEntry.ease + 50) \div 100
              IN  GradedEntry.interval = (IF rounded >= 1 THEN rounded ELSE 1)
        /\ GradedEntry.due = lastOp.now + GradedEntry.interval * (86400000 \div 100)

C24_Witness ==
    /\ JustGraded /\ lastOp.grade = 2
    /\ lastOp.had
    /\ PriorEntry.repetitions = 2 /\ PriorEntry.interval = 6 /\ PriorEntry.ease = 140
    /\ GradedEntry.interval = 8
    /\ GradedEntry.repetitions = 3

\* C25: a grade of Hard lowers the ease by 0.15 but not below 1.3 and leaves
\* repetitions as they were; a nonzero interval becomes max(1, round(interval * 1.2)),
\* an interval of 0 becomes 1; due = now + interval days.
C25_Hard ==
    (JustGraded /\ lastOp.grade = 1) =>
        /\ GradedEntry.ease =
              (IF PriorEntry.ease - 15 >= 130 THEN PriorEntry.ease - 15 ELSE 130)
        /\ GradedEntry.repetitions = PriorEntry.repetitions
        /\ GradedEntry.interval =
              (IF PriorEntry.interval = 0 THEN 1
               ELSE LET rounded == (PriorEntry.interval * 12 + 5) \div 10
                    IN  IF rounded >= 1 THEN rounded ELSE 1)
        /\ GradedEntry.due = lastOp.now + GradedEntry.interval * (86400000 \div 100)

C25_Witness ==
    /\ JustGraded /\ lastOp.grade = 1
    /\ lastOp.had
    /\ PriorEntry.interval = 6 /\ PriorEntry.ease = 140 /\ PriorEntry.repetitions = 2
    /\ GradedEntry.interval = 7
    /\ GradedEntry.ease = 130

\* the effect of Easy on ease, repetitions and interval
C26_EasySteps ==
    /\ GradedEntry.ease = PriorEntry.ease + 15
    /\ GradedEntry.repetitions = PriorEntry.repetitions + 1
    /\ PriorEntry.repetitions = 1 =>
          GradedEntry.interval = (PriorEntry.interval * 25 + 5) \div 10
    /\ PriorEntry.repetitions >= 2 =>
          LET rounded == (PriorEntry.interval * (PriorEntry.ease + 15) * 13 + 500)
                            \div 1000
          IN  GradedEntry.interval = (IF rounded >= 1 THEN rounded ELSE 1)

C27_BaseMeta ==
    IF lastOp.meta.lastReviewDay # getTodayKey(lastOp.now)
    THEN [reviewsToday |-> 0, newToday |-> 0]
    ELSE [reviewsToday |-> lastOp.meta.reviewsToday, newToday |-> lastOp.meta.newToday]

\* the word just graded was served as new and had not been seen
C27_FirstAsNew == lastOp.kind = "new" /\ ~PriorEntry.seen

\* C27: every grading raises reviewsToday and the record's totalReviews by one and sets
\* lastReview to now; newToday goes up by one, clamped at dailyNewLimit, exactly when
\* the kind is 'new' and the record was not seen, and the record is then seen; a word
\* that was graded before does not raise newToday again.
C27_Counters ==
    JustGraded =>
        /\ progress.meta.reviewsToday = C27_BaseMeta.reviewsToday + 1
        /\ GradedEntry.totalReviews = PriorEntry.totalReviews + 1
        /\ GradedEntry.lastReview = lastOp.now
        /\ progress.meta.newToday =
              (IF C27_FirstAsNew
               THEN (IF C27_BaseMeta.newToday + 1 <= lastOp.limit
                     THEN C27_BaseMeta.newToday + 1 ELSE lastOp.limit)
               ELSE C27_BaseMeta.newToday)
        /\ GradedEntry.seen = (PriorEntry.seen \/ lastOp.kind = "new")
        /\ PriorEntry.totalReviews >= 1 => progress.meta.newToday = C27_BaseMeta.newToday

C27_Witness ==
    /\ JustGraded
    /\ lastOp.kind = "review"
    /\ PriorEntry.totalReviews = 1 /\ PriorEntry.seen
    /\ lastOp.meta.lastReviewDay = getTodayKey(lastOp.now)
    /\ progress.meta.newToday = 1
    /\ progress.meta.reviewsToday = 2

\* the position of word w in the catalog
C28_CatalogIndex(w) == CHOOSE i \in 1..Len(cards) : cards[i].word = w

C28_NoRepeats(q) == \A i, j \in 1..Len(q) : q[i] = q[j] => i = j

\* C28: after a rebuild the review queue is in ascending order of due, cards of equal
\* due in catalog order; the new queue holds the first min(size of the new bucket,
\* max(0, dailyNewLimit - newToday)) cards of the new bucket in catalog order; no card
\* is in both queues or twice in one.
C28_QueueOrder ==
    lastOp.name \in RebuildOps =>
        /\ \A i, j \in 1..Len(BuiltReview) :
              i < j =>
                 \/ progress.cards[BuiltReview[i]].due < progress.cards[BuiltReview[j]].due
                 \/ /\ progress.cards[BuiltReview[i]].due
                          = progress.cards[BuiltReview[j]].due
                    /\ C28_CatalogIndex(BuiltReview[i]) < C28_CatalogIndex(BuiltReview[j])
        /\ SeqSet(BuiltNew) \subseteq FreshWords
        /\ Len(BuiltNew) =
              (LET quota == IF settings.dailyNewLimit - progress.meta.newToday >= 0
                            THEN settings.dailyNewLimit - progress.meta.newToday ELSE 0
               IN  IF Cardinality(FreshWords) <= quota
                   THEN Cardinality(FreshWords) ELSE quota)
        /\ \A i, j \in 1..Len(BuiltNew) :
              i < j => C28_CatalogIndex(BuiltNew[i]) < C28_CatalogIndex(BuiltNew[j])
        /\ \A w \in FreshWords :
              (\E k \in 1..Len(BuiltNew) :
                    C28_CatalogIndex(w) < C28_CatalogIndex(BuiltNew[k]))
                 => w \in SeqSet(BuiltNew)
        /\ SeqSet(BuiltReview) \cap SeqSet(BuiltNew) = {}
        /\ C28_NoRepeats(BuiltReview)
        /\ C28_NoRepeats(BuiltNew)

C28_Witness ==
    /\ lastOp.name \in RebuildOps
    /\ BuiltReview = <<"world", "hello">>
    /\ progress.cards["world"].due < progress.cards["hello"].due
    /\ BuiltNew = <<>>

\* the card just graded is in neither queue and is not the card on screen
C29_GradedCardGone ==
    /\ lastOp.word \notin SeqSet(BuiltReview) \cup SeqSet(BuiltNew)
    /\ currentCard # lastOp.word

\* C29: with lapseMinutes > 0 a grading at time now leaves the record's due after now,
\* so the rebuild that follows puts the graded card in neither queue and serves another
\* card or none.
C29_DueMovesForward ==
    (JustGraded /\ lastOp.lapseMinutes > 0) =>
        /\ GradedEntry.due > lastOp.now
        /\ C29_GradedCardGone

C29_Witness ==
    /\ JustGraded /\ lastOp.grade = 0
    /\ lastOp.lapseMinutes = 1
    /\ lastOp.had /\ lastOp.kind = "review"
    /\ PriorEntry.due # 0 /\ PriorEntry.due <= lastOp.now
    /\ GradedEntry.due = lastOp.now + MinuteUnits
    /\ currentCard = NoCard

\* the due review card that a jump took off the screen is in the rebuilt review queue,
\* ahead of every card whose due is later
C30_DisplacedServed ==
    LET x == lastOp.displaced
    IN  /\ x \in SeqSet(BuiltReview)
        /\ \A i, k \in 1..Len(BuiltReview) :
              (BuiltReview[i] = x /\ progress.cards[BuiltReview[k]].due > progress.cards[x].due)
                 => i < k

\* C30: a search jump puts the chosen card on screen, as 'review' iff it has a record and
\* as 'new' otherwise, hides the answer, and leaves both queues and the snapshot as they
\* were; when the jumped-to card is then graded, the due review card that was on screen
\* before the jump is back in the review queue, ahead of every card due later.
C30_JumpKeepsQueues ==
    [][/\ lastOp'.name = "search" =>
             /\ currentCard' = lastOp'.word
             /\ currentKind' = (IF lastOp'.word \in DOMAIN progress.cards
                                THEN "review" ELSE "new")
             /\ showingAnswer' = FALSE
             /\ reviewQueue' = reviewQueue
             /\ newQueue' = newQueue
             /\ progress' = progress
       /\ (lastOp'.name = "grade" /\ lastOp'.displaced # NoCard) => C30_DisplacedServed']_vars

C30_Witness ==
    /\ JustGraded
    /\ lastOp.displaced = "hello"
    /\ lastOp.word = "apple" /\ lastOp.kind = "new"
    /\ progress.cards["hello"].due < progress.cards["world"].due
    /\ currentCard = "hello" /\ currentKind = "review"
    /\ reviewQueue = <<"world">>

-----------------------------------------------------------------------------
(* Sessions of a learner whose remote document carries a full session        *)
(* history: sign-in, load, gradings, debounced saves and resets.             *)

\* the history of the remote document: HISTORY_SESSION gradings on earlier days,
\* newest first, as an earlier session sent them
StoredHistory ==
    [i \in 1..HISTORY_SESSION |->
        [word |-> "hello", mode |-> "en-ru", grade |-> 2,
         timestamp |-> ClockStart - i * DayUnits]]

HistoryDoc == [progress |-> RemoteDoc.progress, history |-> StoredHistory]

\* the gradings made since the session started
SessionGradings(h) == Cardinality({i \in 1..Len(h) : h[i].timestamp >= ClockStart})

\* the session right after handleCredentialResponse("ann") on a fresh page: the
\* placeholder snapshot is installed and the GET is in flight
InitHistory ==
    /\ clock = ClockStart
    /\ catalog = Catalog1
    /\ bootPc = "ready"
    /\ cards = catalog
    /\ progress = createEmptyProgress(ClockStart)
    /\ settings = [dailyNewLimit |-> DEFAULT_dailyNewLimit,
                   lapseMinutes |-> DEFAULT_lapseMinutes]
    /\ level = "all"
    /\ mode = "en-ru"
    /\ reviewQueue = <<>>
    /\ newQueue = <<>>
    /\ currentCard = "hello"
    /\ currentKind = "new"
    /\ showingAnswer = FALSE
    /\ history = <<>>
    /\ saveDebounceTimer = NoTimer
    /\ timers = {}
    /\ authMessage = ""
    /\ currentUser = "ann"
    /\ currentIdToken = "ann"
    /\ remote = [u \in {"ann"} |-> HistoryDoc]
    /\ localStorage = [k \in {} |-> TRUE]
    /\ loads = <<[sub |-> "ann",
                  storedProgress |-> <<>>,
                  fallbackProgress |-> createEmptyProgress(ClockStart),
                  fallbackHistory |-> <<>>,
                  previous |-> NoUser,
                  graded |-> [x \in {} |-> 0]]>>
    /\ writes = <<>>
    /\ deletes = <<>>
    /\ lastOp = [name |-> "credential", sub |-> "ann"]
    /\ lastSaved = [k \in {} |-> TRUE]

NextHistory ==
    \/ Tick
    \/ revealAnswer
    \/ \E g \in SyncGrades : SessionGradings(history) < MaxReviews /\ gradeCardStep(g)
    \/ \E i \in 1..MaxLoads, o \in LoadOutcomes : loadProgressResume(i, o)
    \/ DebounceFire
    \/ \E i \in 1..MaxInFlight, o \in WriteOutcomes : persistProgressResume(i, o)
    \/ resetProgress
    \/ \E i \in 1..MaxInFlight, o \in DeleteOutcomes : resetProgressResume(i, o)

SpecHistory == InitHistory /\ [][NextHistory]_vars

\* C31: the in-memory history is ordered newest first and holds at most 12 entries;
\* every grading prepends exactly one entry {word, mode, grade, timestamp} and drops
\* the oldest entry beyond the bound; the history of a save request in flight and of
\* a stored remote document never exceeds 100 entries.
C31_NewestFirst(h) ==
    \A i \in 1..Len(h), j \in 1..Len(h) : i < j => h[i].timestamp >= h[j].timestamp

C31_HistoryBounded ==
    /\ Len(history) <= HISTORY_SESSION
    /\ C31_NewestFirst(history)
    /\ JustGraded =>
        /\ history # <<>>
        /\ history[1] = [word |-> lastOp.word, mode |-> mode, grade |-> lastOp.grade,
                         timestamp |-> lastOp.now]
    /\ \A i \in 1..Len(writes) : Len(writes[i].body.history) <= MAX_HISTORY_LENGTH
    /\ \A u \in DOMAIN remote : Len(remote[u].history) <= MAX_HISTORY_LENGTH

\* C31: a grading shifts the former entries down by one place and keeps the first
\* 11 of them
C31_PrependsOne ==
    [][lastOp'.name = "grade" /\ lastOp' # lastOp =>
        /\ Len(history') = Min(Len(history) + 1, HISTORY_SESSION)
        /\ \A k \in 2..Len(history') : history'[k] = history[k - 1]]_vars

\* C31: the history stays bounded and newest first in every state, and every
\* grading prepends exactly one entry and drops the entry beyond the bound
C31_History == []C31_HistoryBounded /\ C31_PrependsOne

\* a grading on a full history has dropped the oldest stored entry, and the save
\* of a full history is in flight
C31_Witness ==
    /\ JustGraded
    /\ Len(history) = HISTORY_SESSION
    /\ history[HISTORY_SESSION] = StoredHistory[HISTORY_SESSION - 1]

C31_SaveWitness ==
    \E i \in 1..Len(writes) :
        /\ Len(writes[i].body.history) = HISTORY_SESSION
        /\ writes[i].body.history[1].timestamp >= ClockStart

\* every word of queue q belongs to a card of the catalog that passes level filter lvl
C32_AllMatch(q, lvl) ==
    \A i \in 1..Len(q) :
        \E k \in 1..Len(cards) : cards[k].word = q[i] /\ matchesLevel(cards[k], lvl)

\* the queues of the state are right for level filter lvl and daily limit limit
C32_QueuesFit(lvl, limit) ==
    /\ C32_AllMatch(reviewQueue, lvl)
    /\ C32_AllMatch(newQueue, lvl)
    /\ Len(newQueue) <= Max(0, limit - progress.meta.newToday)
    /\ ~showingAnswer
    /\ currentCard # NoCard =>
          \E k \in 1..Len(cards) : cards[k].word = currentCard /\ matchesLevel(cards[k], lvl)

\* C32: every step that changes dailyNewLimit or the level filter rebuilds the queues
\* and shows the next card in the same step: right after it both queues hold only cards
\* of the new level and newQueue holds at most max(0, new dailyNewLimit - newToday) cards.
C32_ChangeRebuilds ==
    [][(settings'.dailyNewLimit # settings.dailyNewLimit \/ level' # level) =>
          C32_QueuesFit(level, settings.dailyNewLimit)']_vars

\* the level filter was narrowed while a card of another level was queued, or the
\* limit was lowered below the number of new cards already counted today
C32_Witness ==
    /\ lastOp.name = "level"
    /\ level = "A2"
    /\ currentCard = "world"
    /\ reviewQueue = <<>> /\ newQueue = <<>>
    /\ ~HasEntry(progress, "hello")

\* the limit was lowered to the number of new cards already counted today while a
\* card without record is left: the new queue stays empty
C32_LimitWitness ==
    /\ lastOp.name = "settings"
    /\ settings.dailyNewLimit <= progress.meta.newToday
    /\ \E k \in 1..Len(cards) : IsFreshCard(progress, cards[k].word)
    /\ newQueue = <<>> /\ currentKind # "new"

-----------------------------------------------------------------------------
(* Sessions on a fresh snapshot with a persisted daily limit: gradings, jumps *)
(* through the search, and the passing of time. The limit never changes.     *)

InitQuota ==
    /\ clock = ClockStart
    /\ catalog = Catalog2
    /\ bootPc = "ready"
    /\ cards = catalog
    /\ progress = createEmptyProgress(ClockStart)
    /\ \E limit \in LimitChoices :
          settings = [dailyNewLimit |-> limit, lapseMinutes |-> DEFAULT_lapseMinutes]
    /\ level = "all"
    /\ mode = "en-ru"
    /\ LET r == pickNextCard(BuildQueues(catalog, progress, level,
                                         settings.dailyNewLimit, clock))
       IN  /\ reviewQueue = r.reviewQueue
           /\ newQueue = r.newQueue
           /\ currentCard = r.currentCard
           /\ currentKind = r.currentKind
    /\ showingAnswer = FALSE
    /\ history = <<>>
    /\ saveDebounceTimer = NoTimer
    /\ timers = {}
    /\ currentUser = NoUser
    /\ currentIdToken = NoToken
    /\ authMessage = ""
    /\ remote = [u \in {} |-> TRUE]
    /\ loads = <<>>
    /\ writes = <<>>
    /\ deletes = <<>>
    /\ localStorage = [k \in {} |-> TRUE]
    /\ lastOp = [name |-> "fetch"]
    /\ lastSaved = [k \in {} |-> TRUE]

NextQuota ==
    \/ Tick
    \/ revealAnswer
    \/ \E g \in JumpGrades : gradeCard(g)
    \/ \E i \in 1..Len(cards) : handleSearch(i)

SpecQuota == InitQuota /\ [][NextQuota]_vars

\* the words whose record was created on the day of the clock: graded once, today
C33_FirstGradedToday ==
    {w \in DOMAIN progress.cards :
        /\ progress.cards[w].totalReviews = 1
        /\ getTodayKey(progress.cards[w].lastReview) = Today}

\* C33: within one calendar day, with dailyNewLimit unchanged, the number of distinct
\* words that receive their first grade never exceeds dailyNewLimit, jumps included.
C33_QuotaOnFirstGrades == Cardinality(C33_FirstGradedToday) <= settings.dailyNewLimit

-----------------------------------------------------------------------------
(* The records that grow from the default record: one card is graded again   *)
(* and again, brought back on screen through the search after each grading.  *)

InitGrades ==
    /\ InitSession
    /\ currentUser = NoUser
    /\ currentIdToken = NoToken
    /\ remote = [u \in {} |-> TRUE]
    /\ localStorage = [k \in {} |-> TRUE]

NextGrades ==
    \/ revealAnswer
    \/ \E g \in 0..3 :
          /\ SumTotalReviews(progress, DOMAIN progress.cards) < MaxGrades
          /\ EntryOf(progress, currentCard, clock).interval <= MaxInterval
          /\ gradeCardStep(g)
    \/ \E i \in 1..Len(cards) : handleSearch(i)

SpecGrades == InitGrades /\ [][NextGrades]_vars

\* C34: in every record grown from the default record, repetitions >= 1 implies
\* interval >= 1; after every Hard, Good or Easy grade the interval is >= 1, so that
\* 'interval || 1' is the interval itself and due = now + interval * 86400000 exactly.
C34_IntervalPositive ==
    /\ \A w \in DOMAIN progress.cards :
          progress.cards[w].repetitions >= 1 => progress.cards[w].interval >= 1
    /\ JustGraded /\ lastOp.grade >= 1 =>
          /\ GradedEntry.interval >= 1
          /\ GradedEntry.due = lastOp.now + GradedEntry.interval * DayUnits

\* Hard on a record that a lapse had set back to interval 0 after several gradings
C34_Witness ==
    /\ JustGraded
    /\ lastOp.grade = 1
    /\ PriorEntry.interval = 0
    /\ PriorEntry.lapses >= 1
    /\ PriorEntry.totalReviews >= 3
    /\ GradedEntry.interval = 1
    /\ GradedEntry.due = lastOp.now + DayUnits

\* C35: for every record grown from the default record, a Good or Easy grade never
\* yields an interval smaller than the interval the record had before that grade.
C35_GoodEasyNeverShrink ==
    JustGraded /\ lastOp.grade \in {2, 3} => GradedEntry.interval >= PriorEntry.interval

-----------------------------------------------------------------------------
(* A switch of identity: the session of "bob", signed in with a valid token, *)
(* receives a credential of "ann", whose document the server holds.          *)

InitSwitch ==
    /\ InitSession
    /\ currentUser = "bob"
    /\ currentIdToken = "bob"
    /\ remote = [u \in {"ann"} |-> RemoteDoc]
    /\ localStorage = [k \in {} |-> TRUE]

NextSwitch ==
    \/ Tick
    \/ revealAnswer
    \/ \E g \in SyncGrades : gradeCard(g)
    \/ \E u \in Users : handleCredentialResponse(u)
    \/ \E i \in 1..MaxLoads, o \in LoadOutcomes : loadProgressResume(i, o)
    \/ DebounceFire
    \/ \E i \in 1..MaxInFlight, o \in WriteOutcomes : persistProgressResume(i, o)

SpecSwitch == InitSwitch /\ [][NextSwitch]_vars

\* a snapshot without any record, as createEmptyProgress() builds it
C36_IsPlaceholder(json) == DOMAIN JSONparse(json).cards = {}

\* C36: a debounced save scheduled, or a remote save in flight, under one identity
\* never writes the empty placeholder snapshot of a pending load to the cache key or
\* the remote document of the identity switched to.
C36_NoPlaceholderWritten ==
    /\ \A i \in 1..Len(writes) :
          writes[i].sub = "ann" => ~C36_IsPlaceholder(writes[i].body.progress)
    /\ "ann" \in DOMAIN remote => DOMAIN remote["ann"].progress.cards # {}
    /\ HasStoredProgress(localStorage, "ann") =>
          DOMAIN loadProgressFromLocalStorage(localStorage, "ann").cards # {}

-----------------------------------------------------------------------------
(* Overlapping loads: credentials of two identities arrive one after the     *)
(* other, the second before the GET of the first is answered. The server     *)
(* holds a document for each of them.                                        *)

OverlapUsers == {"ann", "bob"}

BobDoc == [progress |-> CachedSnapshot, history |-> <<>>]

InitOverlap ==
    /\ InitSession
    /\ currentUser = NoUser
    /\ currentIdToken = NoToken
    /\ remote = [u \in OverlapUsers |-> IF u = "ann" THEN RemoteDoc ELSE BobDoc]
    /\ localStorage = [k \in {} |-> TRUE]

NextOverlap ==
    \/ revealAnswer
    \/ \E u \in OverlapUsers : Len(loads) < MaxOverlap /\ handleCredentialResponseStep(u)
    \/ \E i \in 1..MaxOverlap, o \in LoadOutcomes : loadProgressResume(i, o)

SpecOverlap == InitOverlap /\ [][NextOverlap]_vars

\* the loads of two different identities overlapped, and the last of them has just
\* been answered with the remote document
C37_BothAnswered ==
    /\ lastOp.name = "loaded"
    /\ lastOp.outcome = "ok"
    /\ loads = <<>>

\* C37: when two loads overlap because the identity changed again before the first
\* load was answered, then after both are complete the in-memory snapshot and the
\* local cache entry of the current identity hold the data of the current identity,
\* whatever the order of the responses.
C37_LastIdentityWins ==
    C37_BothAnswered =>
        /\ progress.cards = ServerGet(remote, currentUser).progress.cards
        /\ HasStoredProgress(localStorage, currentUser)
        /\ loadProgressFromLocalStorage(localStorage, currentUser).cards
              = ServerGet(remote, currentUser).progress.cards

-----------------------------------------------------------------------------
(* The sync server by itself: the handlers of POST and DELETE run as the     *)
(* event loop interleaves them. remote is the users object of the storage    *)
(* file; writes holds the requests being handled, each with the position of  *)
(* its handler and the store its readStorage() returned. The browser session *)
(* does not move.                                                            *)

\* what the server specification leaves alone
sessionVars ==
    <<clock, catalog, bootPc, cards, progress, settings, level, mode, reviewQueue,
      newQueue, currentCard, currentKind, showingAnswer, history, saveDebounceTimer,
      timers, currentUser, localStorage, currentIdToken, authMessage, loads, deletes,
      lastSaved>>

\* the request bodies that the clients of the two identities post
PostBodies ==
    {[progress |-> JSONstringify(RemoteDoc.progress), history |-> RemoteDoc.history],
     [progress |-> JSONstringify(CachedSnapshot), history |-> <<>>]}

\* the places of the handlers in writeQueue: the numbers of the queued file writes
QueuedOrders == {writes[i].order : i \in {j \in 1..Len(writes) : writes[j].pc = "queued"}}

LastQueued == IF QueuedOrders = {} THEN 0 ELSE CHOOSE n \in QueuedOrders : \A m \in QueuedOrders : m <= n

\* the documents the server has answered for with 204 after writing them: per identity
\* <<>> (nothing yet), <<"stored", doc>> or <<"deleted">>
NoneAccepted == [u \in OverlapUsers |-> <<>>]

InitServer ==
    /\ InitPage
    /\ lastOp = [name |-> "listen", accepted |-> NoneAccepted, served |-> 0]
    /\ currentUser = NoUser
    /\ currentIdToken = NoToken
    /\ localStorage = [k \in {} |-> TRUE]
    /\ remote \in {[u \in {} |-> TRUE], [u \in {"ann"} |-> RemoteDoc]}

\* a request passes authenticate() and its handler runs up to 'await readStorage()',
\* which first awaits the writes queued so far; one request per identity at a time
ServerReceive(method, u, body) ==
    /\ lastOp.served < MaxRequests
    /\ \A i \in 1..Len(writes) : writes[i].sub # u
    /\ writes' = Append(writes, [method |-> method, sub |-> u, body |-> body,
                                 pc |-> "reading", awaits |-> LastQueued, order |-> 0,
                                 store |-> [k \in {} |-> TRUE]])
    /\ lastOp' = [name |-> "received", method |-> method, sub |-> u, status |-> 0,
                  written |-> FALSE,
                  accepted |-> lastOp.accepted,
                  served |-> lastOp.served + 1]
    /\ UNCHANGED remote
    /\ UNCHANGED sessionVars

\* readStorage() returns the parsed file; the handler changes its copy and calls
\* writeStorage(store), or answers at once when DELETE finds nothing to delete
ServerRead(i) ==
    /\ i \in 1..Len(writes)
    /\ writes[i].pc = "reading"
    /\ \A n \in QueuedOrders : n > writes[i].awaits
    /\ LET w == writes[i]
           nothing == w.method = "DELETE" /\ w.sub \notin DOMAIN remote
           store == IF w.method = "POST" THEN ServerPost(remote, w.sub, w.body)
                    ELSE ServerDelete(remote, w.sub)
       IN  /\ writes' = IF nothing THEN RemoveAt(writes, i)
                        ELSE [writes EXCEPT ![i] = [w EXCEPT !.pc = "queued",
                                                             !.order = LastQueued + 1,
                                                             !.store = store]]
           /\ lastOp' = [name |-> IF nothing THEN "responded" ELSE "read",
                         method |-> w.method, sub |-> w.sub,
                         status |-> IF nothing THEN 204 ELSE 0,
                         written |-> FALSE,
                         accepted |-> IF nothing
                                      THEN [lastOp.accepted EXCEPT ![w.sub] = <<"deleted">>]
                                      ELSE lastOp.accepted,
                         served |-> lastOp.served]
    /\ UNCHANGED remote
    /\ UNCHANGED sessionVars

WriteFileOutcomes == {"ok", "failed"}

\* the write at the head of writeQueue runs: fs.writeFile() replaces the file or
\* fails; writeStorage() resolves either way and the handler answers 204
ServerWriteFile(i, outcome) ==
    /\ i \in 1..Len(writes)
    /\ writes[i].pc = "queued"
    /\ \A n \in QueuedOrders : writes[i].order <= n
    /\ LET w == writes[i]
           ok == outcome = "ok"
       IN  /\ remote' = IF ok THEN w.store ELSE remote
           /\ writes' = RemoveAt(writes, i)
           /\ lastOp' = [name |-> "responded", method |-> w.method, sub |-> w.sub,
                         status |-> 204, written |-> ok,
                         accepted |-> IF ~ok THEN lastOp.accepted
                                      ELSE IF w.method = "POST"
                                      THEN [lastOp.accepted EXCEPT ![w.sub] = <<"stored", w.store[w.sub]>>]
                                      ELSE [lastOp.accepted EXCEPT ![w.sub] = <<"deleted">>],
                         served |-> lastOp.served]
    /\ UNCHANGED sessionVars

NextServer ==
    \/ \E u \in OverlapUsers, body \in PostBodies : ServerReceive("POST", u, body)
    \/ \E u \in OverlapUsers : ServerReceive("DELETE", u, <<>>)
    \/ \E i \in 1..MaxRequests : ServerRead(i)
    \/ \E i \in 1..MaxRequests, o \in WriteFileOutcomes : ServerWriteFile(i, o)

SpecServer == InitServer /\ [][NextServer]_vars

\* C38: a put for one identity replaces only that identity's document: once every
\* request has been answered, the storage holds for each identity the document of its
\* last POST that was written and answered, and no document after its DELETE; no
\* accepted write is discarded by a request of another identity.
C38_NoLostWrite ==
    (lastOp.name = "responded" /\ writes = <<>>) =>
        \A u \in OverlapUsers :
            /\ (lastOp.accepted[u] # <<>> /\ lastOp.accepted[u][1] = "stored") =>
                   u \in DOMAIN remote /\ remote[u] = lastOp.accepted[u][2]
            /\ (lastOp.accepted[u] # <<>> /\ lastOp.accepted[u][1] = "deleted") =>
                   u \notin DOMAIN remote

\* C39: the server answers a POST with 204 only when the document has been written to
\* the storage file; when the write fails the client receives an error status.
C39_AnswerTellsTheWrite ==
    (lastOp.name = "responded" /\ lastOp.method = "POST") =>
        (lastOp.status = 204 <=> lastOp.written)

-----------------------------------------------------------------------------
(* Progress of the saves: time passes, due timers fire and every request is  *)
(* answered. A grading is only made while the clock of the run can still     *)
(* reach the time of its debounce timer.                                     *)

InitLive ==
    /\ InitSession
    /\ currentUser = NoUser
    /\ currentIdToken = NoToken
    /\ remote \in RemoteChoices
    /\ localStorage = [k \in {} |-> TRUE]

NextLive ==
    \/ Tick
    \/ revealAnswer
    \/ \E g \in SyncGrades : TickCount(clock) < MaxTicks /\ gradeCard(g)
    \/ \E u \in Users : handleCredentialResponse(u)
    \/ \E i \in 1..MaxLoads, o \in LoadOutcomes : loadProgressResume(i, o)
    \/ DebounceFire
    \/ \E i \in 1..MaxInFlight, o \in WriteOutcomes : persistProgressResume(i, o)

\* the event loop runs every due timer callback, every fetch() settles, time passes
Fairness ==
    /\ WF_vars(Tick)
    /\ WF_vars(DebounceFire)
    /\ WF_vars(\E i \in 1..MaxLoads, o \in LoadOutcomes : loadProgressResume(i, o))
    /\ WF_vars(\E i \in 1..MaxInFlight, o \in WriteOutcomes : persistProgressResume(i, o))

SpecLive == InitLive /\ [][NextLive]_vars /\ Fairness

\* the local cache entry of the current identity equals the snapshot in memory, and
\* that snapshot holds a record graded in this session
C40_Persisted ==
    /\ HasStoredProgress(localStorage, currentUser)
    /\ loadProgressFromLocalStorage(localStorage, currentUser) = JSONparse(JSONstringify(progress))
    /\ \E w \in DOMAIN progress.cards : progress.cards[w].lastReview >= ClockStart

\* C40: every grade is eventually persisted locally: after a grading, unless the
\* identity changes afterwards, the debounce timer fires, every remote call returns,
\* and eventually the local cache entry of the current identity equals the in-memory
\* snapshot including that grade.
C40_EventuallySaved ==
    JustGraded ~> (C40_Persisted \/ lastOp.name = "credential")

====
